---- MODULE Spec2Model ----
(***************************************************************************)
(* Quota tracker of the research front end: AuthService.updateSearchCount, *)
(* getSearchCount, checkSearchLimit, shouldResetSearchCount,               *)
(* getSubscriptionTier and updateSubscriptionTier, over the remote `users` *)
(* row (the source of truth) and the browser's localStorage (the fallback  *)
(* cache).  One user; time is counted in hours.  Further: the keyword      *)
(* aggregation and the live-statistics subscription of StatsService,       *)
(* SearchService.getTierLimits, getBackendApiUrl and the dashboard's       *)
(* fetchPopularKeywords; two interleaved updateSearchCount calls; and the  *)
(* views: MultiStepSearchToggle, EnhancedSearchBar,                        *)
(* EnhancedResearchDashboard, AdSearchDashboard and ResearchDashboard's    *)
(* platform selection.                                                     *)
(***************************************************************************)
EXTENDS Integers, Sequences, FiniteSets, TLC

VARIABLES
    dbUser,       \* the remote row: [search_count, last_reset_date]
    sessionTier,  \* session.user.user_metadata.subscription_tier ("" = none)
    lsCount,      \* localStorage search_count_<userId>
    lsReset,      \* localStorage last_reset_<userId>
    lsTier,       \* localStorage subscription_tier_<userId> ("" = absent)
    now,          \* the wall clock, in hours
    steps,        \* operations performed so far
    last,         \* the last operation: its inputs, what it read, its result
    hist,         \* the operations of a recorded session, oldest first
    sub,          \* the live-statistics subscription and its refreshes
    clock,        \* milliseconds since the subscription was made
    searchHistory, \* the search_query column of search_history, newest first
    tabs,         \* two callers of updateSearchCount, each between its awaits
    view,         \* MultiStepSearchToggle: viewMode and the user prop
    bar,          \* EnhancedSearchBar and its parent's loading flag
    dash,         \* EnhancedResearchDashboard
    adSearch,     \* AdSearchDashboard
    selectedPlatforms, \* ResearchDashboard's selection, in selection order
    orphans       \* requests in flight whose component was unmounted

vars ==
    <<dbUser, sessionTier, lsCount, lsReset, lsTier, now, steps, last, hist,
      sub, clock, searchHistory, tabs, view, bar, dash, adSearch,
      selectedPlatforms, orphans>>

quotaVars == <<dbUser, sessionTier, lsCount, lsReset, lsTier, now>>

statsVars == <<sub, clock, searchHistory>>

raceVars == <<tabs>>

uiVars == <<view, bar, dash, adSearch, selectedPlatforms, orphans>>

-----------------------------------------------------------------------------
(* Bounds of the model *)

MaxSteps == 2

\* Length of a calendar month of the model's clock, in hours.
HoursPerMonth == 720

-----------------------------------------------------------------------------
(* Program constants *)

FreeLimit == 25
StandardLimit == 25
ProLimit == 999999
ResetHours == 24
DefaultIncrement == 1
DefaultLimit == 25

ValidTiers == {"free", "standard", "pro"}

\* Outcome of one awaited remote call: a result without error, a result
\* carrying an error, or a rejected promise.
Outcomes == {"ok", "err", "throw"}

\* Before subscribeToStatsUpdates is called.
NotSubscribed ==
    [phase |-> "idle", channel |-> FALSE, interval |-> FALSE, nextFire |-> 0,
     rowsAtSub |-> 0, pending |-> 0, started |-> 0, callbacks |-> 0,
     shown |-> <<>>, atUnsub |-> [clock |-> 0, started |-> 0, rows |-> 0,
                                  callbacks |-> 0]]

StatsIdle == sub = NotSubscribed /\ clock = 0 /\ searchHistory = <<>>

\* No call of updateSearchCount has started in either tab.
NoCalls == [t \in {1, 2} |-> [pc |-> "idle"]]

RaceIdle == tabs = NoCalls

\* useState('standard') of the toggle, before a user prop is given.
ToggleMounted == [viewMode |-> "standard", user |-> "null"]

\* The useState initial values of EnhancedSearchBar; isLoading is the
\* parent's flag behind the isLoading and setIsLoading props.  A subtopic is
\* its position in the list, 0 is null.
SearchBarMounted ==
    [currentStep |-> "search", subtopics |-> 0, selectedSubtopic |-> 0,
     isLoading |-> FALSE, error |-> FALSE, pending |-> "none",
     categories |-> 0]

\* The useState initial values of EnhancedResearchDashboard.
DashboardMounted ==
    [currentStep |-> "search", subtopics |-> 0, selectedSubtopic |-> 0,
     isLoading |-> FALSE, error |-> FALSE, searchResults |-> FALSE,
     expanding |-> 0, searching |-> 0]

\* The useState initial values of AdSearchDashboard.
AdSearchMounted ==
    [isLoading |-> FALSE, error |-> FALSE, ads |-> FALSE, searching |-> 0,
     selectedPlatforms |-> <<"facebook", "google", "linkedin">>]

\* useState of ResearchDashboard's selectedPlatforms.
PlatformsMounted == <<"reddit", "youtube", "tiktok", "instagram", "threads">>

\* bar: the number of categories of each category search left in flight.
NoOrphans == [bar |-> <<>>, dash |-> 0]

UiIdle ==
    /\ view = ToggleMounted
    /\ bar = SearchBarMounted
    /\ dash = DashboardMounted
    /\ adSearch = AdSearchMounted
    /\ selectedPlatforms = PlatformsMounted
    /\ orphans = NoOrphans

-----------------------------------------------------------------------------
(* JavaScript values *)

\* Numbers: NaN compares false with everything and poisons arithmetic.
NaN == [nan |-> TRUE, v |-> 0]
Num(n) == [nan |-> FALSE, v |-> n]
Sub(a, b) == IF a.nan \/ b.nan THEN NaN ELSE Num(a.v - b.v)
GE(a, n) == ~a.nan /\ a.v >= n

\* Date strings: null, a string that is no date, or an ISO timestamp.
NullDate == [kind |-> "null", t |-> 0]
GarbageDate == [kind |-> "garbage", t |-> 0]
toISOString(t) == [kind |-> "iso", t |-> t]

\* new Date(s).getTime(): an Invalid Date has time NaN; nothing is thrown.
getTime(s) == IF s.kind = "iso" THEN Num(s.t) ELSE NaN

\* getFullYear() * 12 + getMonth() of a time value.
monthIndex(d) == IF d.nan THEN NaN ELSE Num(d.v \div HoursPerMonth)

\* Strings of localStorage: sequences of characters, a digit d as d and any
\* other character as 10; an absent key is [has |-> FALSE].
Absent == [has |-> FALSE, s |-> <<>>]
Str(s) == [has |-> TRUE, s |-> s]

RECURSIVE toString(_)
toString(n) == IF n < 10 THEN <<n>> ELSE toString(n \div 10) \o <<n % 10>>

RECURSIVE parseDigits(_, _, _)
parseDigits(s, i, acc) ==
    IF i > Len(s) \/ s[i] > 9 THEN acc
    ELSE parseDigits(s, i + 1, acc * 10 + s[i])

\* parseInt(s, 10): the leading digits, NaN when there are none.
parseInt(s) == IF Len(s) = 0 \/ s[1] > 9 THEN NaN ELSE Num(parseDigits(s, 1, 0))

\* localStorage.getItem(key) || '0'
orZero(item) == IF item.has /\ Len(item.s) > 0 THEN item.s ELSE <<0>>

-----------------------------------------------------------------------------
(* AuthService: pure helpers *)

\* Variants of the rule below: one without the null guard, one that measures
\* a month as a duration, one that resets only after more than 24 hours.
shouldResetNoNullGuard(lastResetDate, isMonthly, t) ==
    LET lastReset == getTime(lastResetDate)
        nowT == Num(t)
    IN IF isMonthly
       THEN GE(Sub(monthIndex(nowT), monthIndex(lastReset)), 1)
       ELSE GE(Sub(nowT, lastReset), ResetHours)

shouldResetByDuration(lastResetDate, isMonthly, t) ==
    IF lastResetDate.kind = "null" THEN TRUE
    ELSE LET hoursSinceReset == Sub(Num(t), getTime(lastResetDate))
         IN IF isMonthly THEN GE(hoursSinceReset, HoursPerMonth)
            ELSE GE(hoursSinceReset, ResetHours)

shouldResetStrict(lastResetDate, isMonthly, t) ==
    IF lastResetDate.kind = "null" THEN TRUE
    ELSE LET lastReset == getTime(lastResetDate)
             nowT == Num(t)
         IN IF isMonthly
            THEN GE(Sub(monthIndex(nowT), monthIndex(lastReset)), 1)
            ELSE GE(Sub(nowT, lastReset), ResetHours + 1)

\* shouldResetSearchCount(lastResetDate, isMonthly), evaluated at clock t.
\* The try block never throws: an unparseable string gives an Invalid Date,
\* whose getters return NaN, and NaN >= n is false.
shouldResetSearchCount(lastResetDate, isMonthly, t) ==
    IF lastResetDate.kind = "null" THEN TRUE
    ELSE LET lastReset == getTime(lastResetDate)
             nowT == Num(t)
             monthsSinceReset == Sub(monthIndex(nowT), monthIndex(lastReset))
             hoursSinceReset == Sub(nowT, lastReset)
         IN IF isMonthly THEN GE(monthsSinceReset, 1)
            ELSE GE(hoursSinceReset, ResetHours)

\* Variant: the session's metadata first, the cached tier only without it.
getSubscriptionTierRemoteFirst(sess) ==
    IF sess = "ok" /\ sessionTier \in ValidTiers
    THEN [tier |-> sessionTier, lsTier |-> sessionTier, asked |-> 1]
    ELSE IF lsTier \in ValidTiers
    THEN [tier |-> lsTier, lsTier |-> lsTier, asked |-> 1]
    ELSE [tier |-> "free", lsTier |-> lsTier, asked |-> 1]

\* getSubscriptionTier(userId): localStorage first, then the session's
\* metadata (cached into localStorage when valid), else 'free'.  sess is
\* the outcome of supabase.auth.getSession(), used only when it is called.
getSubscriptionTier(sess) ==
    IF lsTier \in ValidTiers
    THEN [tier |-> lsTier, lsTier |-> lsTier, asked |-> 0]
    ELSE IF sess = "ok" /\ sessionTier \in ValidTiers
    THEN [tier |-> sessionTier, lsTier |-> sessionTier, asked |-> 1]
    ELSE [tier |-> "free", lsTier |-> lsTier, asked |-> 1]

\* Variant: every ceiling is one search higher.
limitsRaised(tier) == DefaultLimit + 1

\* limits[tier] || 25
limits(tier) ==
    IF tier = "free" THEN FreeLimit
    ELSE IF tier = "standard" THEN StandardLimit
    ELSE DefaultLimit

\* Variant: no tier is served without consulting the row.
isUnlimitedNever(tier) == FALSE

\* tier === 'pro': the tier served without consulting the row.
isUnlimited(tier) == tier = "pro"

\* Variant: the ceiling itself is still allowed.
hasReachedLimitStrict(currentCount, limit) == currentCount > limit

\* hasReachedLimit = currentCount >= limit
hasReachedLimit(currentCount, limit) == currentCount >= limit

\* Variant: the increment is lost.
nextCountSame(currentCount, increment) == currentCount

\* Variant: the increment is taken off the count.
nextCountDown(currentCount, increment) == currentCount - increment

\* newCount = currentCount + increment
nextCount(currentCount, increment) == currentCount + increment

\* Variant: the fallback cache is written after every update.
updateFailedOrNot(wr) == TRUE

\* if (updateError): the branch that writes the fallback cache.
updateFailed(wr) == wr = "err"

\* Variant: a call that fails is issued a second time.
attemptsRetry(outcome) == IF outcome = "ok" THEN 1 ELSE 2

\* Each remote call is awaited once, outside any loop: the number of times
\* it is issued, whatever its outcome.
attempts(outcome) == 1

\* Variant: the update is always stamped with the current time.
orNowAlways(lastResetDate, t) == toISOString(t)

\* lastResetDate || now.toISOString()
orNow(lastResetDate, t) ==
    IF lastResetDate.kind = "null" THEN toISOString(t) ELSE lastResetDate

-----------------------------------------------------------------------------
(* AuthService.checkSearchLimit(userId, tier) *)

\* The value returned from the catch block.
checkFailure ==
    [hasReachedLimit |-> FALSE, currentCount |-> 0, limit |-> 0, error |-> TRUE]

\* rd: outcome of the select; wr: outcome of the reset update, when issued.
\* Gives the returned value, the row afterwards and the remote calls made.
checkSearchLimit(tier, rd, wr) ==
    IF isUnlimited(tier)
    THEN [res |-> [hasReachedLimit |-> FALSE, currentCount |-> 0,
                   limit |-> ProLimit, error |-> FALSE],
          db |-> dbUser, reads |-> 0, writes |-> 0, shouldReset |-> FALSE]
    ELSE IF rd # "ok"
    THEN [res |-> checkFailure, db |-> dbUser, reads |-> attempts(rd), writes |-> 0,
          shouldReset |-> FALSE]
    ELSE LET isMonthly == tier = "free"
             shouldReset ==
                 shouldResetSearchCount(dbUser.last_reset_date, isMonthly, now)
             currentCount == IF shouldReset THEN 0 ELSE dbUser.search_count
             limit == limits(tier)
         IN IF shouldReset /\ wr = "throw"
            THEN [res |-> checkFailure, db |-> dbUser, reads |-> attempts(rd),
                  writes |-> attempts(wr), shouldReset |-> TRUE]
            ELSE [res |-> [hasReachedLimit |-> hasReachedLimit(currentCount, limit),
                           currentCount |-> currentCount, limit |-> limit,
                           error |-> FALSE],
                  db |-> IF shouldReset /\ wr = "ok"
                         THEN [search_count |-> 0,
                               last_reset_date |-> toISOString(now)]
                         ELSE dbUser,
                  reads |-> attempts(rd),
                  writes |-> IF shouldReset THEN attempts(wr) ELSE 0,
                  shouldReset |-> shouldReset]

-----------------------------------------------------------------------------
(* AuthService.updateSearchCount(userId, increment) *)

\* Variant: the update is refused when the row is no longer the one read.
storedIfUnchanged(current, read, payload) ==
    IF current = read THEN payload ELSE current

\* .update({search_count, last_reset_date}).eq('id', userId): the row
\* becomes the payload, whatever it holds by now.
stored(current, read, payload) == payload

\* The call from the answer of its select onwards.  row: the row the select
\* returned; rd: outcome of the select; sess: of getSession; wr: of the
\* update.
writeSearchCount(row, increment, rd, sess, wr) ==
    LET fetched == rd = "ok"
        readCount == IF fetched THEN row.search_count ELSE 0
        readReset == IF fetched THEN row.last_reset_date ELSE NullDate
        gt == getSubscriptionTier(sess)
        isMonthly == gt.tier = "free"
        shouldReset == shouldResetSearchCount(readReset, isMonthly, now)
        currentCount == IF shouldReset THEN 0 ELSE readCount
        lastResetDate == IF shouldReset THEN toISOString(now) ELSE readReset
        newCount == nextCount(currentCount, increment)
        fallback == updateFailed(wr)
        payload == [search_count |-> newCount,
                    last_reset_date |-> orNow(lastResetDate, now)]
    IN [tier |-> gt.tier, lsTier |-> gt.lsTier, asked |-> gt.asked,
        shouldReset |-> shouldReset,
        readCount |-> readCount, readReset |-> readReset,
        newCount |-> newCount, payload |-> payload,
        db |-> IF wr = "ok" THEN stored(dbUser, row, payload) ELSE dbUser,
        lsCount |-> IF fallback THEN Str(toString(newCount)) ELSE lsCount,
        lsReset |-> IF fallback THEN payload.last_reset_date ELSE lsReset,
        wroteLocal |-> fallback,
        res |-> IF wr = "throw"
                THEN [hasData |-> FALSE, search_count |-> 0, error |-> TRUE]
                ELSE [hasData |-> TRUE, search_count |-> newCount,
                      error |-> wr = "err"],
        reads |-> attempts(rd), writes |-> attempts(wr)]

\* The select and the rest of the call with nothing in between.
updateSearchCount(increment, rd, sess, wr) ==
    writeSearchCount(dbUser, increment, rd, sess, wr)

-----------------------------------------------------------------------------
(* AuthService.getSearchCount(userId) *)

\* Variant: the catch block answers 0 without reading the cache.
finalFallbackZero == Num(0)

\* The catch block: parseInt(localStorage.getItem(storageKey) || '0', 10).
finalFallback == parseInt(orZero(lsCount))

\* rd: outcome of the select; sess: of getSession; wr: of the reset update,
\* when issued.
getSearchCount(rd, sess, wr) ==
    LET same == [db |-> dbUser, lsCount |-> lsCount, lsReset |-> lsReset,
                 lsTier |-> lsTier, wroteLocal |-> FALSE, tier |-> "",
                 asked |-> 0,
                 shouldReset |-> FALSE, reads |-> attempts(rd), writes |-> 0,
                 res |-> Num(0)]
    IN IF rd = "throw"
       THEN [same EXCEPT !.res = finalFallback]
       ELSE IF rd = "ok"
       THEN LET gt == getSubscriptionTier(sess)
                isMonthly == gt.tier = "free"
                shouldReset == shouldResetSearchCount(
                                   dbUser.last_reset_date, isMonthly, now)
                seen == [same EXCEPT !.tier = gt.tier, !.lsTier = gt.lsTier,
                                     !.asked = gt.asked,
                                     !.shouldReset = shouldReset]
            IN IF shouldReset /\ dbUser.search_count > 0
               THEN IF wr = "throw"
                    THEN [seen EXCEPT !.res = finalFallback, !.writes = attempts(wr)]
                    ELSE [seen EXCEPT
                            !.db = IF wr = "ok"
                                   THEN [search_count |-> 0,
                                         last_reset_date |-> toISOString(now)]
                                   ELSE dbUser,
                            !.writes = attempts(wr)]
               ELSE [seen EXCEPT !.res = Num(dbUser.search_count)]
       ELSE \* the select answered with an error: the localStorage fallback
            LET shouldReset == shouldResetSearchCount(lsReset, FALSE, now)
            IN IF shouldReset
               THEN [same EXCEPT !.lsCount = Str(<<0>>),
                                 !.lsReset = toISOString(now),
                                 !.wroteLocal = TRUE, !.shouldReset = TRUE]
               ELSE [same EXCEPT !.res = parseInt(orZero(lsCount))]

-----------------------------------------------------------------------------
(* AuthService.updateSubscriptionTier(userId, tier) *)

\* Variant: a tier change starts a fresh usage period.
updateSubscriptionTierFresh(tier, out) ==
    [sessionTier |-> IF out = "ok" THEN tier ELSE sessionTier,
     lsTier |-> tier,
     db |-> [search_count |-> 0, last_reset_date |-> toISOString(now)],
     lsCount |-> Absent, lsReset |-> NullDate,
     res |-> [success |-> TRUE, error |-> FALSE]]

\* out: outcome of supabase.auth.admin.updateUserById.  Every path writes
\* the tier to localStorage and reports success.
\* The usage record is not among the things it writes.
updateSubscriptionTier(tier, out) ==
    [sessionTier |-> IF out = "ok" THEN tier ELSE sessionTier,
     lsTier |-> tier,
     db |-> dbUser, lsCount |-> lsCount, lsReset |-> lsReset,
     res |-> [success |-> TRUE, error |-> FALSE]]

-----------------------------------------------------------------------------
(* The state machine *)

\* The clock starts in the last hour of a month, or one hour later.
T0 == HoursPerMonth - 1

Tiers == ValidTiers \cup {"enterprise"}

\* Reset dates 0, 23 and 24 hours before T0: seen from T0 they lie in the
\* same month, seen from T0 + 1 in the month before, 1, 24 and 25 hours ago.
InitResets ==
    {NullDate, GarbageDate, toISOString(T0),
     toISOString(T0 - (ResetHours - 1)), toISOString(T0 - ResetHours)}

InitRows ==
    [search_count : {FreeLimit - 1, FreeLimit}, last_reset_date : InitResets]
    \cup [search_count : {0},
          last_reset_date : {NullDate, toISOString(T0 - ResetHours)}]

\* What the fallback cache may hold from earlier sessions.
InitCache ==
    {<<Absent, NullDate>>,
     <<Str(toString(7)), toISOString(T0 - (ResetHours - 1))>>}

\* <<cached tier, session tier>>: nothing known, a remote tier not yet
\* cached, an invalid cached value, and a cached tier that differs from the
\* remote one.
InitTiers ==
    {<<"", "">>, <<"", "standard">>, <<"enterprise", "free">>,
     <<"standard", "free">>}

Init ==
    /\ dbUser \in InitRows
    /\ \E t \in InitTiers : lsTier = t[1] /\ sessionTier = t[2]
    /\ \E c \in InitCache : lsCount = c[1] /\ lsReset = c[2]
    /\ now \in {T0, T0 + 1}
    /\ steps = 0
    /\ last = [op |-> "none"]
    /\ hist = <<>>
    /\ StatsIdle
    /\ RaceIdle
    /\ UiIdle

\* An outcome is drawn for each remote call the handler issues, and is "ok"
\* by convention for a call it does not issue.
issued(n, outcome) == n > 0 \/ outcome = "ok"
used(n, outcome) == IF n = 0 THEN "none" ELSE outcome

\* One call of checkSearchLimit with any tier argument.
CheckStep ==
    /\ \E tier \in Tiers, rd \in Outcomes, wr \in Outcomes :
         LET r == checkSearchLimit(tier, rd, wr)
         IN /\ issued(r.reads, rd) /\ issued(r.writes, wr)
            /\ dbUser' = r.db
            /\ last' = [op |-> "check", tier |-> tier, pre |-> dbUser,
                        at |-> now,
                        rd |-> used(r.reads, rd), wr |-> used(r.writes, wr),
                        reads |-> r.reads, writes |-> r.writes,
                        shouldReset |-> r.shouldReset, wroteLocal |-> FALSE,
                        res |-> r.res]
    /\ UNCHANGED <<sessionTier, lsCount, lsReset, lsTier, now>>

\* One call of updateSearchCount with the default increment (recordSearch).
RecordStep ==
    /\ \E rd \in Outcomes, sess \in {"ok", "throw"}, wr \in Outcomes :
         LET r == updateSearchCount(DefaultIncrement, rd, sess, wr)
         IN /\ issued(r.asked, sess)
            /\ dbUser' = r.db
            /\ lsCount' = r.lsCount
            /\ lsReset' = r.lsReset
            /\ lsTier' = r.lsTier
            /\ last' = [op |-> "record", tier |-> r.tier, pre |-> dbUser,
                        at |-> now, preTier |-> lsTier,
                        rd |-> rd, sess |-> used(r.asked, sess), wr |-> wr,
                        reads |-> r.reads, writes |-> r.writes,
                        shouldReset |-> r.shouldReset,
                        readReset |-> r.readReset, newCount |-> r.newCount,
                        payload |-> r.payload, wroteLocal |-> r.wroteLocal,
                        res |-> r.res]
    /\ UNCHANGED <<sessionTier, now>>

\* One call of getSearchCount (getUsage).
UsageStep ==
    /\ \E rd \in Outcomes, sess \in {"ok", "throw"}, wr \in Outcomes :
         LET r == getSearchCount(rd, sess, wr)
         IN /\ issued(r.asked, sess) /\ issued(r.writes, wr)
            /\ dbUser' = r.db
            /\ lsCount' = r.lsCount
            /\ lsReset' = r.lsReset
            /\ lsTier' = r.lsTier
            /\ last' = [op |-> "usage", tier |-> r.tier, pre |-> dbUser,
                        at |-> now, preTier |-> lsTier,
                        rd |-> rd, sess |-> used(r.asked, sess),
                        wr |-> used(r.writes, wr),
                        reads |-> r.reads, writes |-> r.writes,
                        shouldReset |-> r.shouldReset,
                        preCache |-> <<lsCount, lsReset>>,
                        wroteLocal |-> r.wroteLocal, res |-> r.res]
    /\ UNCHANGED <<sessionTier, now>>

CheckSearchLimit ==
    /\ steps < MaxSteps
    /\ CheckStep
    /\ steps' = steps + 1
    /\ UNCHANGED <<hist, statsVars, raceVars, uiVars>>

UpdateSearchCount ==
    /\ steps < MaxSteps
    /\ RecordStep
    /\ steps' = steps + 1
    /\ UNCHANGED <<hist, statsVars, raceVars, uiVars>>

GetSearchCount ==
    /\ steps < MaxSteps
    /\ UsageStep
    /\ steps' = steps + 1
    /\ UNCHANGED <<hist, statsVars, raceVars, uiVars>>

UpdateSubscriptionTier ==
    /\ steps < MaxSteps
    /\ \E tier \in ValidTiers, out \in Outcomes :
         LET r == updateSubscriptionTier(tier, out)
         IN /\ sessionTier' = r.sessionTier
            /\ lsTier' = r.lsTier
            /\ dbUser' = r.db
            /\ lsCount' = r.lsCount
            /\ lsReset' = r.lsReset
            /\ last' = [op |-> "tier", tier |-> tier, pre |-> dbUser,
                        at |-> now, out |-> out, wroteLocal |-> FALSE,
                        preCache |-> <<lsCount, lsReset>>,
                        res |-> r.res]
    /\ steps' = steps + 1
    /\ UNCHANGED <<now, hist, statsVars, raceVars, uiVars>>

\* Time passes between operations.
Tick ==
    /\ steps < MaxSteps
    /\ \E d \in {1, ResetHours} : now' = now + d
    /\ steps' = steps + 1
    /\ UNCHANGED <<dbUser, sessionTier, lsCount, lsReset, lsTier, last, hist,
                   statsVars, raceVars, uiVars>>

Next ==
    \/ CheckSearchLimit
    \/ UpdateSearchCount
    \/ GetSearchCount
    \/ UpdateSubscriptionTier
    \/ Tick

Spec == Init /\ [][Next]_vars

-----------------------------------------------------------------------------
(* A recorded session: three quota operations in a row, each kept in hist *)

Scenario == <<"check", "record", "check">>

SessionInit ==
    /\ dbUser \in [search_count : {FreeLimit - 2, FreeLimit - 1},
                   last_reset_date : {toISOString(T0)}]
    /\ lsTier = ""
    /\ sessionTier \in {"", "standard"}
    /\ lsCount = Absent /\ lsReset = NullDate
    /\ now \in {T0, T0 + 1}
    /\ steps = 0
    /\ last = [op |-> "none"]
    /\ hist = <<>>
    /\ StatsIdle
    /\ RaceIdle
    /\ UiIdle

SessionCheck ==
    /\ Len(hist) < Len(Scenario)
    /\ CheckStep
    /\ hist' = Append(hist, last')
    /\ UNCHANGED <<steps, statsVars, raceVars, uiVars>>

SessionRecord ==
    /\ Len(hist) < Len(Scenario)
    /\ RecordStep
    /\ hist' = Append(hist, last')
    /\ UNCHANGED <<steps, statsVars, raceVars, uiVars>>

SessionUsage ==
    /\ Len(hist) < Len(Scenario)
    /\ UsageStep
    /\ hist' = Append(hist, last')
    /\ UNCHANGED <<steps, statsVars, raceVars, uiVars>>

SessionNext == SessionCheck \/ SessionRecord \/ SessionUsage

SessionSpec == SessionInit /\ [][SessionNext]_vars

-----------------------------------------------------------------------------
(* Properties of checkSearchLimit *)

IsCheck(l, tiers) == l.op = "check" /\ l.tier \in tiers

\* The ceiling configured for a limited tier.
Ceiling(tier) == IF tier = "free" THEN FreeLimit ELSE StandardLimit

\* C1, as stated: for tier free or standard, in every result checkSearchLimit
\* returns, hasReachedLimit is true iff the reported currentCount >= the
\* reported limit, and the reported limit is the tier's configured ceiling.
C1_EveryResult ==
    IsCheck(last, {"free", "standard"}) =>
        /\ last.res.hasReachedLimit <=> last.res.currentCount >= last.res.limit
        /\ last.res.limit = Ceiling(last.tier)

\* C1, amended: the equivalence and the ceiling hold in every result returned
\* without an error; a result returned with an error (the select failed, or
\* the reset update threw) reports hasReachedLimit = false with currentCount
\* 0 and limit 0.
C1_ResultWithoutError ==
    IsCheck(last, {"free", "standard"}) =>
        IF last.res.error
        THEN /\ ~last.res.hasReachedLimit
             /\ last.res.currentCount = 0
             /\ last.res.limit = 0
        ELSE /\ last.res.hasReachedLimit
                    <=> last.res.currentCount >= last.res.limit
             /\ last.res.limit = Ceiling(last.tier)

\* A standard-tier check that found the count at the ceiling, no reset due.
C1_Witness ==
    /\ IsCheck(last, {"standard"})
    /\ ~last.res.error
    /\ ~last.shouldReset
    /\ last.res.currentCount = StandardLimit
    /\ last.res.hasReachedLimit

\* C2: for tier pro checkSearchLimit reports hasReachedLimit = false whatever
\* the stored count and reset date, issues no remote call (so the answer does
\* not depend on the store being reachable), and reports a limit above every
\* stored or cached count.
C2_ProNeverReached ==
    IsCheck(last, {"pro"}) =>
        /\ ~last.res.hasReachedLimit
        /\ ~last.res.error
        /\ last.reads = 0 /\ last.writes = 0
        /\ last.res.limit > last.pre.search_count
        /\ last.res.limit > dbUser.search_count
        /\ last.res.limit > parseInt(orZero(lsCount)).v

\* A pro-tier check made while the row holds the free ceiling and a reset
\* date that is a day old.
C2_Witness ==
    /\ IsCheck(last, {"pro"})
    /\ last.pre.search_count = FreeLimit
    /\ last.pre.last_reset_date = toISOString(last.at - ResetHours)
    /\ ~last.res.hasReachedLimit

-----------------------------------------------------------------------------
(* The scenario of a free-tier user one search below the ceiling *)

\* Calendar months between a reset timestamp and the clock.
MonthsApart(resetT, nowT) ==
    (nowT \div HoursPerMonth) - (resetT \div HoursPerMonth)

\* A check for a free-tier user whose row, read successfully, holds c
\* searches and a reset date in the current month.
FreeCheckAt(l, c) ==
    /\ IsCheck(l, {"free"})
    /\ l.rd = "ok"
    /\ l.pre.search_count = c
    /\ l.pre.last_reset_date.kind = "iso"
    /\ MonthsApart(l.pre.last_reset_date.t, l.at) = 0

\* A recordSearch that resolved the tier to free and whose select and update
\* both succeeded.
FreeRecordDone(l) ==
    /\ l.op = "record"
    /\ l.tier = "free"
    /\ l.rd = "ok"
    /\ l.wr = "ok"

CheckResult(reached, count, limit) ==
    [hasReachedLimit |-> reached, currentCount |-> count, limit |-> limit,
     error |-> FALSE]

\* C3: with the remote store answering, a free-tier user whose stored count
\* is 24 and whose reset month is the current one gets {reached: false,
\* currentCount: 24, limit: 25} from checkSearchLimit; after exactly one
\* recordSearch the next checkSearchLimit gives {reached: true,
\* currentCount: 25, limit: 25}.
C3_Scenario ==
    /\ (Len(hist) >= 1 /\ FreeCheckAt(hist[1], FreeLimit - 1)) =>
           hist[1].res = CheckResult(FALSE, 24, 25)
    /\ (/\ Len(hist) = 3
        /\ FreeCheckAt(hist[1], FreeLimit - 1)
        /\ FreeRecordDone(hist[2])
        /\ IsCheck(hist[3], {"free"})
        /\ hist[3].rd = "ok") =>
           /\ hist[3].res = CheckResult(TRUE, 25, 25)
           /\ dbUser.search_count = 25

\* The three operations of the scenario have run in that order.
C3_Witness ==
    /\ Len(hist) = 3
    /\ FreeCheckAt(hist[1], FreeLimit - 1)
    /\ ~hist[1].res.hasReachedLimit
    /\ FreeRecordDone(hist[2])
    /\ IsCheck(hist[3], {"free"})
    /\ hist[3].rd = "ok"
    /\ hist[3].res.hasReachedLimit

-----------------------------------------------------------------------------
(* Properties of the reset rule as recordSearch applies it *)

IsRecord(l) == l.op = "record"

\* What a recordSearch that read count c writes, with or without a reset.
Written(l, reset) ==
    /\ l.shouldReset = reset
    /\ l.newCount = IF reset THEN 1 ELSE l.pre.search_count + 1
    /\ l.payload.search_count = l.newCount
    /\ l.res.hasData => l.res.search_count = l.newCount
    /\ l.wr = "ok" => dbUser.search_count = l.newCount

\* C4: when recordSearch reads a null lastResetDate it zeroes the count
\* before incrementing, for every prior count and every tier: the count it
\* sends to the store is 1, and so is the count it returns when it returns
\* one.
C4_NullResetDate ==
    (IsRecord(last) /\ last.readReset.kind = "null") =>
        /\ last.shouldReset
        /\ last.newCount = 1
        /\ last.payload.search_count = 1
        /\ last.payload.last_reset_date = toISOString(last.at)
        /\ last.res.hasData => last.res.search_count = 1
        /\ last.wr = "ok" => dbUser.search_count = 1

\* A standard-tier row at the ceiling with no reset date, recorded once.
C4_Witness ==
    /\ IsRecord(last)
    /\ last.rd = "ok" /\ last.wr = "ok"
    /\ last.tier = "standard"
    /\ last.pre = [search_count |-> FreeLimit, last_reset_date |-> NullDate]
    /\ dbUser.search_count = 1

\* C5: for tier free recordSearch resets exactly when the clock's calendar
\* month is one or more months after the month of lastResetDate, however
\* few hours have passed, and not while the two months are equal, however
\* many hours have passed.
C5_FreeMonthly ==
    (IsRecord(last) /\ last.tier = "free" /\ last.readReset.kind = "iso") =>
        Written(last, MonthsApart(last.readReset.t, last.at) >= 1)

\* One hour after the reset date, across a month boundary: a reset.
C5_Witness ==
    /\ IsRecord(last) /\ last.tier = "free" /\ last.readReset.kind = "iso"
    /\ last.at - last.readReset.t = 1
    /\ last.pre.search_count = FreeLimit
    /\ last.shouldReset
    /\ last.newCount = 1

\* Twenty-four hours after the reset date, within one month: no reset.
C5_WitnessSameMonth ==
    /\ IsRecord(last) /\ last.tier = "free" /\ last.readReset.kind = "iso"
    /\ last.at - last.readReset.t >= ResetHours
    /\ ~last.shouldReset
    /\ last.newCount = last.pre.search_count + 1

\* C6: for tier standard recordSearch resets iff at least 24 hours have
\* passed since lastResetDate: at 23 hours the new count is the prior count
\* plus one, at 24 and at 25 hours it is 1.
C6_StandardDaily ==
    (/\ IsRecord(last) /\ last.tier = "standard"
     /\ last.readReset.kind = "iso") =>
        Written(last, last.at - last.readReset.t >= 24)

\* Twenty-three hours after the reset date: the count goes from 24 to 25.
C6_Witness ==
    /\ IsRecord(last) /\ last.tier = "standard"
    /\ last.readReset.kind = "iso"
    /\ last.at - last.readReset.t = 23
    /\ last.pre.search_count = FreeLimit - 1
    /\ last.newCount = FreeLimit

\* Twenty-five hours after the reset date: the count restarts at 1.
C6_WitnessReset ==
    /\ IsRecord(last) /\ last.tier = "standard"
    /\ last.readReset.kind = "iso"
    /\ last.at - last.readReset.t = 25
    /\ last.newCount = 1

-----------------------------------------------------------------------------
(* Missing and unparseable reset timestamps *)

NotADate(d) == d.kind \in {"null", "garbage"}

\* The reset date an operation handed to shouldResetSearchCount, if any.
ResetChecked(l) ==
    \/ l.op = "record"
    \/ l.op = "check" /\ l.rd = "ok"
    \/ l.op = "usage" /\ l.rd \in {"ok", "err"}

ResetInput(l) ==
    IF l.op = "record" THEN l.readReset
    ELSE IF l.op = "usage" /\ l.rd = "err" THEN l.preCache[2]
    ELSE l.pre.last_reset_date

\* C7: a missing or unparseable reset timestamp is always treated as
\* elapsed: for every tier, whenever an operation evaluates the reset check
\* on a lastResetDate that is absent or does not parse to a date, the check
\* returns true.
C7_MissingOrUnparseable ==
    (ResetChecked(last) /\ NotADate(ResetInput(last))) => last.shouldReset

-----------------------------------------------------------------------------
(* Failure paths of recordSearch and the fallback cache *)

\* C8: on every path of recordSearch where the remote update does not
\* succeed (an error result or a thrown exception), the incremented count
\* is in the fallback cache under the user's key when recordSearch returns.
C8_IncrementNeverDropped ==
    (IsRecord(last) /\ last.wr # "ok") =>
        /\ last.wroteLocal
        /\ lsCount = Str(toString(last.newCount))

\* Some remote call of the operation did not succeed.
RemoteFailed(l) == l.rd \in {"err", "throw"} \/ l.wr \in {"err", "throw"}

\* The count an operation reports: getSearchCount's number, the count in
\* updateSearchCount's data, checkSearchLimit's currentCount.
Reported(l) ==
    IF l.op = "usage" THEN l.res
    ELSE IF l.op = "record" THEN Num(l.res.search_count)
    ELSE Num(l.res.currentCount)

\* The count the row read by the operation stands for: 0 once the reset
\* boundary has passed, plus the increment for recordSearch.
FromRemote(l) ==
    LET c == IF l.shouldReset THEN 0 ELSE l.pre.search_count
    IN Num(IF l.op = "record" THEN c + 1 ELSE c)

IsQuotaOp(l) == l.op \in {"usage", "record", "check"}

\* An operation that read the row and returned a count.
ReadAndReported(l) ==
    /\ IsQuotaOp(l)
    /\ l.rd = "ok"
    /\ l.op = "record" => l.res.hasData
    /\ l.op = "check" => ~l.res.error

\* C9, as stated: the search-count cache is written only in executions where
\* the remote store was unreachable, and whenever the remote read responds
\* successfully the count returned by getSearchCount, updateSearchCount or
\* checkSearchLimit is derived from the remote record.
C9_RemoteReadIsAuthoritative ==
    /\ last.op # "none" => (last.wroteLocal => RemoteFailed(last))
    /\ ReadAndReported(last) => Reported(last) = FromRemote(last)

\* C9, amended: the cache is written only by an operation one of whose
\* remote calls failed; whenever the remote read responds successfully and
\* the operation's reset update does not throw, the count returned is
\* derived from the remote record; when getSearchCount's reset update
\* throws after a successful read, it returns the cached count.
C9_RemoteIsAuthoritative ==
    /\ last.op # "none" => (last.wroteLocal => RemoteFailed(last))
    /\ (ReadAndReported(last) /\ last.wr # "throw") =>
           Reported(last) = FromRemote(last)
    /\ (last.op = "usage" /\ last.rd = "ok" /\ last.wr = "throw") =>
           Reported(last) = parseInt(orZero(last.preCache[1]))

\* getSearchCount answers from a row at the ceiling while the cache holds
\* another count.
C9_Witness ==
    /\ last.op = "usage" /\ last.rd = "ok"
    /\ last.pre.search_count = FreeLimit
    /\ ~last.shouldReset
    /\ last.preCache[1] = Str(toString(7))
    /\ last.res = Num(FreeLimit)

-----------------------------------------------------------------------------
(* Failure paths of getSearchCount and checkSearchLimit *)

\* The count the fallback cache holds, 0 when it holds none.
Cached == parseInt(orZero(lsCount))

-----------------------------------------------------------------------------
(* The tier and the usage record *)

\* A user whom no source calls standard or pro.
FreeUser(l) ==
    /\ l.preTier \notin {"standard", "pro"}
    /\ sessionTier \notin {"standard", "pro"}

\* C11: the reset cadence is derived from the tier at read time: for a
\* free-tier user getSearchCount applies the monthly calendar rule and never
\* the 24-hour rule, both when it reads the remote record and when it falls
\* back to the local cache.
C11_FreeUsageMonthly ==
    (/\ last.op = "usage" /\ last.rd \in {"ok", "err"}
     /\ FreeUser(last)
     /\ ResetInput(last).kind = "iso") =>
        (last.shouldReset <=>
             MonthsApart(getTime(ResetInput(last)).v, last.at) >= 1)

C13_TierChangeKeepsUsage ==
    last.op = "tier" =>
        /\ dbUser = last.pre
        /\ <<lsCount, lsReset>> = last.preCache
        /\ \A sess \in {"ok", "throw"} :
               getSubscriptionTier(sess).tier = last.tier

C13_Witness ==
    /\ last.op = "tier" /\ last.tier = "standard"
    /\ dbUser.search_count = FreeLimit - 1
    /\ dbUser.last_reset_date = toISOString(T0)
    /\ lsCount = Str(toString(7))
    /\ sessionTier = "free"

\* C15: searchCount is a non-negative integer in every reachable state of
\* the remote record and of the local cache, after any sequence of
\* getSearchCount, updateSearchCount, checkSearchLimit and tier changes,
\* remote failures included.
C15_CountNonNegative ==
    /\ dbUser.search_count \in Nat
    /\ lsCount # Absent =>
           LET c == parseInt(lsCount.s) IN ~c.nan /\ c.v \in Nat

C15_Witness ==
    /\ IsRecord(last) /\ last.wr = "err" /\ last.shouldReset
    /\ lsCount = Str(toString(1))
    /\ dbUser.search_count = FreeLimit

-----------------------------------------------------------------------------
(* Strings as sequences of one-character strings *)

Whitespace == {" "}

RECURSIVE trimStart(_)
trimStart(s) ==
    IF Len(s) > 0 /\ s[1] \in Whitespace THEN trimStart(Tail(s)) ELSE s

RECURSIVE trimEnd(_)
trimEnd(s) ==
    IF Len(s) > 0 /\ s[Len(s)] \in Whitespace
    THEN trimEnd(SubSeq(s, 1, Len(s) - 1)) ELSE s

\* String.prototype.trim
trim(s) == trimEnd(trimStart(s))

\* String.prototype.endsWith
endsWith(s, suffix) ==
    /\ Len(suffix) <= Len(s)
    /\ SubSeq(s, Len(s) - Len(suffix) + 1, Len(s)) = suffix

\* s.slice(0, -1)
dropLast(s) == SubSeq(s, 1, Len(s) - 1)

ApiSuffix == <<"/", "a", "p", "i">>

-----------------------------------------------------------------------------
(* apiConfig.getBackendApiUrl(baseUrl) *)

Returned(v) == [threw |-> FALSE, message |-> "", value |-> v]
Thrown(m) == [threw |-> TRUE, message |-> m, value |-> <<>>]

\* Variant: the suffix is appended whatever the URL ends with.
getBackendApiUrlAppend(baseUrl) ==
    IF baseUrl = <<>> THEN Thrown("Backend URL is required")
    ELSE LET trimmed == trim(baseUrl)
             withoutTrailingSlash ==
                 IF endsWith(trimmed, <<"/">>) THEN dropLast(trimmed)
                 ELSE trimmed
         IN Returned(withoutTrailingSlash \o ApiSuffix)

getBackendApiUrl(baseUrl) ==
    IF baseUrl = <<>> THEN Thrown("Backend URL is required")
    ELSE LET trimmed == trim(baseUrl)
             withoutTrailingSlash ==
                 IF endsWith(trimmed, <<"/">>) THEN dropLast(trimmed)
                 ELSE trimmed
         IN IF endsWith(withoutTrailingSlash, ApiSuffix)
            THEN Returned(withoutTrailingSlash)
            ELSE Returned(withoutTrailingSlash \o ApiSuffix)

-----------------------------------------------------------------------------
(* SearchService.getTierLimits(userTier) *)

tierLimits(tier) ==
    IF tier = "standard" THEN [perPlatform |-> 3, totalPerCategory |-> 9]
    ELSE IF tier = "pro" THEN [perPlatform |-> 5, totalPerCategory |-> 15]
    ELSE [perPlatform |-> 1, totalPerCategory |-> 3]

getTierLimits(userTier) ==
    LET lim == tierLimits(userTier)
    IN [maxSearches |-> IF userTier = "free" THEN 5
                        ELSE IF userTier = "standard" THEN 50
                        ELSE 999999,
        resultsPerCategory |-> lim.totalPerCategory,
        perPlatform |-> lim.perPlatform]

-----------------------------------------------------------------------------
(* StatsService.getPlatformStats: the keyword aggregation *)

WindowLimit == 100
TopN == 5

\* String.prototype.toLowerCase, on the letters the sampled queries use.
lowerChar(c) ==
    IF c = "A" THEN "a" ELSE IF c = "I" THEN "i" ELSE IF c = "T" THEN "t"
    ELSE c

toLowerCase(s) == [i \in 1..Len(s) |-> lowerChar(s[i])]

Digits == <<"0", "1", "2", "3", "4", "5", "6", "7", "8", "9">>

digitValue(c) == (CHOOSE i \in 1..Len(Digits) : Digits[i] = c) - 1

isDigit(c) == \E i \in 1..Len(Digits) : Digits[i] = c

RECURSIVE numericValue(_)
numericValue(s) ==
    IF s = <<>> THEN 0
    ELSE numericValue(dropLast(s)) * 10 + digitValue(s[Len(s)])

\* A property key that is a canonical array index ("0", "9", "10", not
\* "09"): own keys of this form are enumerated first, in ascending numeric
\* order, whatever the order of insertion.  Keys of up to nine digits are
\* told here; the ten-digit ones below 2^32 - 1 are index keys too.
isIndexKey(s) ==
    /\ Len(s) \in 1..9
    /\ \A i \in 1..Len(s) : isDigit(s[i])
    /\ Len(s) > 1 => s[1] # "0"

\* Variants of the normalisation: without the trim, without the lower-casing.
normalizeNoTrim(query) == toLowerCase(query)

\* search.search_query.toLowerCase().trim()
normalize(query) == trim(toLowerCase(query))

\* keywordCounts: the keys in insertion order, and the count of each.
EmptyCounts == [keys |-> <<>>, count |-> <<>>]

\* keywordCounts[query] = (keywordCounts[query] || 0) + 1
bump(kc, key) ==
    LET hits == {i \in 1..Len(kc.keys) : kc.keys[i] = key}
    IN IF hits = {}
       THEN [keys |-> Append(kc.keys, key), count |-> Append(kc.count, 1)]
       ELSE [kc EXCEPT !.count[CHOOSE i \in hits : TRUE] = @ + 1]

\* searchHistoryData.forEach(...)
RECURSIVE countKeywords(_, _)
countKeywords(rows, kc) ==
    IF rows = <<>> THEN kc
    ELSE countKeywords(Tail(rows), bump(kc, normalize(Head(rows))))

\* The index keys of kc, ascending.
RECURSIVE indexKeysFrom(_, _)
indexKeysFrom(kc, least) ==
    LET rest == {i \in 1..Len(kc.keys) :
                    /\ isIndexKey(kc.keys[i])
                    /\ numericValue(kc.keys[i]) >= least}
    IN IF rest = {} THEN <<>>
       ELSE LET i == CHOOSE j \in rest : \A k \in rest :
                         numericValue(kc.keys[j]) <= numericValue(kc.keys[k])
            IN <<i>> \o indexKeysFrom(kc, numericValue(kc.keys[i]) + 1)

\* The other keys of kc, in insertion order.
RECURSIVE stringKeysFrom(_, _)
stringKeysFrom(kc, i) ==
    IF i > Len(kc.keys) THEN <<>>
    ELSE (IF isIndexKey(kc.keys[i]) THEN <<>> ELSE <<i>>)
             \o stringKeysFrom(kc, i + 1)

\* Variant: the keys in insertion order, index keys included.
entriesInInsertionOrder(kc) ==
    [i \in 1..Len(kc.keys) |-> [keyword |-> kc.keys[i], count |-> kc.count[i]]]

\* Object.entries(keywordCounts).map(([keyword, count]) => ({keyword, count}))
entries(kc) ==
    LET order == indexKeysFrom(kc, 0) \o stringKeysFrom(kc, 1)
    IN [i \in 1..Len(order) |->
           [keyword |-> kc.keys[order[i]], count |-> kc.count[order[i]]]]

\* Insertion of e behind every entry that does not sort after it.
RECURSIVE insertByCount(_, _)
insertByCount(sorted, e) ==
    IF sorted = <<>> THEN <<e>>
    ELSE IF Head(sorted).count >= e.count
    THEN <<Head(sorted)>> \o insertByCount(Tail(sorted), e)
    ELSE <<e>> \o sorted

\* Array.prototype.sort((a, b) => b.count - a.count), a stable sort.
RECURSIVE sortByCount(_)
sortByCount(list) ==
    IF list = <<>> THEN <<>>
    ELSE insertByCount(sortByCount(dropLast(list)), list[Len(list)])

\* list.slice(0, n)
slice(list, n) == SubSeq(list, 1, IF Len(list) < n THEN Len(list) ELSE n)

\* Variant: the whole sorted list.
topKeywordsAll(rows) == sortByCount(entries(countKeywords(rows, EmptyCounts)))

topKeywords(rows) ==
    slice(sortByCount(entries(countKeywords(rows, EmptyCounts))), TopN)

\* Variant: the catch block answers with a list of zero-count keywords.
statsDefaultsPadded ==
    [totalSearches |-> 0,
     topKeywords |-> <<[keyword |-> <<"s", "e", "o">>, count |-> 0]>>]

\* The catch block of getPlatformStats: 'Return default values on error'.
statsDefaults == [totalSearches |-> 0, topKeywords |-> <<>>]

\* table: search_history.search_query, newest first; server: what the
\* get_platform_stats function computes; rpc: outcome of that call; counts:
\* outcome of the counting queries ("err": they answer without data,
\* "throw": one of them rejects); hist: outcome of the query for the last
\* 100 searches.  Of the counters only totalSearches is kept.
getPlatformStats(table, server, rpc, counts, hst) ==
    IF rpc = "ok"
    THEN [totalSearches |-> Len(table), topKeywords |-> server]
    ELSE IF counts = "throw" \/ hst = "throw"
    THEN statsDefaults
    ELSE LET rows == IF hst = "ok" THEN slice(table, WindowLimit) ELSE <<>>
         IN [totalSearches |-> IF counts = "ok" THEN Len(table) ELSE 0,
             topKeywords |-> topKeywords(rows)]

-----------------------------------------------------------------------------
(* ResearchDashboard.fetchPopularKeywords *)

Placeholders ==
    <<[query |-> "fitness motivation", count |-> 0],
      [query |-> "remote work tips", count |-> 0],
      [query |-> "digital marketing", count |-> 0],
      [query |-> "mental health", count |-> 0],
      [query |-> "content creation", count |-> 0]>>

\* Variant: nothing is shown when the fetch fails.
fetchPopularKeywordsEmpty(out, keywords) ==
    [popularKeywords |-> IF out = "ok" THEN keywords ELSE <<>>,
     loadingPopularKeywords |-> FALSE]

\* out: outcome of the awaited SearchHistoryService.getPopularKeywords,
\* keywords: the list it resolves with.
fetchPopularKeywords(out, keywords) ==
    [popularKeywords |-> IF out = "ok" THEN keywords ELSE Placeholders,
     loadingPopularKeywords |-> FALSE]

-----------------------------------------------------------------------------
(* Single calls of the stateless operations *)

MaxUrlLen == 6
MaxWindow == 3

UrlChars == {" ", "/", "a", "p", "i"}

Urls == UNION {[1..n -> UrlChars] : n \in 0..MaxUrlLen}

AiTools == <<"a", "i", " ", "t", "o", "o", "l", "s">>

\* Queries differing in case and surrounding whitespace, a plain one, and
\* two that read as numbers.
Samples ==
    {<<"A", "I", " ", "t", "o", "o", "l", "s">>,
     AiTools,
     <<"A", "I", " ", "T", "o", "o", "l", "s", " ">>,
     <<"s", "e", "o">>,
     <<"1", "0">>,
     <<"9">>}

\* Five more queries, all different.
Fillers == <<<<"b">>, <<"c">>, <<"d">>, <<"e">>, <<"f">>>>

Short == UNION {[1..n -> Samples] : n \in 0..MaxWindow}

\* Tables of at most MaxWindow sampled queries, with or without the five
\* fillers between them.
Tables ==
    {t[1] \o t[2] \o t[3] :
        t \in {u \in Short \X {<<>>, Fillers} \X Short :
                  Len(u[1]) + Len(u[3]) <= MaxWindow}}

ServerLists == {<<>>, <<[keyword |-> <<"S", "E", "O">>, count |-> 2]>>}

PopularLists == {<<>>, <<[query |-> "seo", count |-> 2]>>}

CallInit ==
    /\ dbUser = [search_count |-> FreeLimit - 1,
                 last_reset_date |-> toISOString(T0)]
    /\ sessionTier = "" /\ lsTier = ""
    /\ lsCount = Absent /\ lsReset = NullDate
    /\ now = T0
    /\ steps = 0
    /\ last = [op |-> "none"]
    /\ hist = <<>>
    /\ StatsIdle
    /\ RaceIdle
    /\ UiIdle

CallGetBackendApiUrl ==
    /\ last.op = "none"
    /\ \E baseUrl \in Urls :
         LET r == getBackendApiUrl(baseUrl)
         IN last' = [op |-> "url", input |-> baseUrl, res |-> r,
                     again |-> IF r.threw THEN r
                               ELSE getBackendApiUrl(r.value)]
    /\ UNCHANGED <<quotaVars, steps, hist, statsVars, raceVars, uiVars>>

CallGetTierLimits ==
    /\ last.op = "none"
    /\ \E userTier \in Tiers :
         last' = [op |-> "limits", tier |-> userTier,
                  res |-> getTierLimits(userTier)]
    /\ UNCHANGED <<quotaVars, steps, hist, statsVars, raceVars, uiVars>>

CallCheckSearchLimit ==
    /\ last.op = "none"
    /\ CheckStep
    /\ UNCHANGED <<steps, hist, statsVars, raceVars, uiVars>>

CallGetPlatformStats ==
    /\ last.op = "none"
    /\ \E table \in Tables, server \in ServerLists,
          rpc \in Outcomes, counts \in Outcomes, hst \in Outcomes :
         /\ rpc = "ok" => counts = "ok" /\ hst = "ok"
         /\ rpc # "ok" => server = <<>>
         /\ counts = "throw" => hst = "ok"
         /\ last' = [op |-> "stats", table |-> table, rpc |-> rpc,
                     counts |-> counts, hst |-> hst,
                     res |-> getPlatformStats(table, server, rpc, counts,
                                              hst)]
    /\ UNCHANGED <<quotaVars, steps, hist, statsVars, raceVars, uiVars>>

CallFetchPopularKeywords ==
    /\ last.op = "none"
    /\ \E out \in {"ok", "throw"}, keywords \in PopularLists :
         /\ out = "throw" => keywords = <<>>
         /\ last' = [op |-> "popular", out |-> out,
                     res |-> fetchPopularKeywords(out, keywords)]
    /\ UNCHANGED <<quotaVars, steps, hist, statsVars, raceVars, uiVars>>

CallNext ==
    \/ CallGetBackendApiUrl
    \/ CallGetTierLimits
    \/ CallCheckSearchLimit
    \/ CallGetPlatformStats
    \/ CallFetchPopularKeywords

CallSpec == CallInit /\ [][CallNext]_vars

-----------------------------------------------------------------------------
(* Properties of the tier ceilings *)

\* C14: an unknown tier is given the free-equivalent search ceiling: every
\* operation that reports a search ceiling for a tier outside {free,
\* standard, pro} (checkSearchLimit.limit, getTierLimits.maxSearches)
\* reports the ceiling it reports for free.
C14_UnknownTierAsFree ==
    /\ (last.op = "check" /\ last.tier \notin ValidTiers
            /\ ~last.res.error) =>
           last.res.limit = limits("free")
    /\ (last.op = "limits" /\ last.tier \notin ValidTiers) =>
           last.res.maxSearches = getTierLimits("free").maxSearches

-----------------------------------------------------------------------------
(* Properties of the keyword aggregation *)

\* A call of getPlatformStats that aggregated the sampled window itself.
Aggregated(l) ==
    l.op = "stats" /\ l.rpc # "ok" /\ l.counts # "throw" /\ l.hst = "ok"

\* Two queries that differ only in letter case or surrounding whitespace.
SameQuery(a, b) == trim(toLowerCase(a)) = trim(toLowerCase(b))

Occurrences(table, keyword) ==
    Cardinality({j \in 1..Len(table) : SameQuery(table[j], keyword)})

FirstSeen(table, keyword) ==
    CHOOSE j \in 1..Len(table) :
        /\ SameQuery(table[j], keyword)
        /\ \A k \in 1..(j - 1) : ~SameQuery(table[k], keyword)

\* C16: the aggregation lower-cases and trims each query before counting,
\* so queries that differ only in letter case or surrounding whitespace are
\* counted under one keyword: "AI tools", "ai tools", "AI Tools " yield
\* exactly one entry {keyword: "ai tools", count: 3}.
C16_NormalizedCounting ==
    Aggregated(last) =>
        LET top == last.res.topKeywords
        IN /\ \A i \in 1..Len(top) :
                 /\ top[i].keyword = trim(toLowerCase(top[i].keyword))
                 /\ top[i].count = Occurrences(last.table, top[i].keyword)
           /\ (\A j \in 1..Len(last.table) :
                   SameQuery(last.table[j], AiTools)) =>
                  top = IF last.table = <<>> THEN <<>>
                        ELSE <<[keyword |-> AiTools,
                                count |-> Len(last.table)]>>

C16_Witness ==
    /\ Aggregated(last)
    /\ last.table = <<<<"A", "I", " ", "t", "o", "o", "l", "s">>, AiTools,
                      <<"A", "I", " ", "T", "o", "o", "l", "s", " ">>>>
    /\ last.res.topKeywords = <<[keyword |-> AiTools, count |-> 3]>>

\* A list of at most topN entries, by descending count, no keyword twice.
Ranked(top) ==
    /\ Len(top) <= TopN
    /\ \A i, j \in 1..Len(top) :
          i < j => /\ top[i].keyword # top[j].keyword
                   /\ top[i].count >= top[j].count

\* The pairs of keywords of equal count, as <<earlier, later>> in the list.
Ties(top) ==
    {<<top[p[1]].keyword, top[p[2]].keyword>> :
        p \in {q \in (1..Len(top)) \X (1..Len(top)) :
                  q[1] < q[2] /\ top[q[1]].count = top[q[2]].count}}

SeenBefore(table, a, b) == FirstSeen(table, a) < FirstSeen(table, b)

\* Index keys first, in ascending numeric order; the other keys in the
\* order they were first seen.
EnumeratedBefore(table, a, b) ==
    IF isIndexKey(a)
    THEN isIndexKey(b) => numericValue(a) < numericValue(b)
    ELSE ~isIndexKey(b) /\ SeenBefore(table, a, b)

StatsFailed(l) ==
    l.op = "stats" /\ l.rpc # "ok"
        /\ (l.counts = "throw" \/ l.hst \in {"err", "throw"})

ZeroCounts(list) == \A i \in 1..Len(list) : list[i].count = 0

\* C18, as stated: when the remote store fails during keyword aggregation,
\* topKeywords is the fixed list of placeholder keywords, each with count 0,
\* and nothing is thrown to the caller.
C18_PlaceholdersOnFailure ==
    /\ StatsFailed(last) =>
           /\ Len(last.res.topKeywords) = Len(Placeholders)
           /\ ZeroCounts(last.res.topKeywords)
    /\ (last.op = "popular" /\ last.out = "throw") =>
           last.res.popularKeywords = Placeholders

\* C18, amended: on such a failure getPlatformStats returns an empty
\* topKeywords list and throws nothing; the fixed list of five placeholder
\* keywords, each with count 0, is what fetchPopularKeywords shows when
\* getPopularKeywords throws.
C18_EmptyOnFailure ==
    /\ StatsFailed(last) => last.res.topKeywords = <<>>
    /\ (last.op = "popular" /\ last.out = "throw") =>
           /\ last.res.popularKeywords = Placeholders
           /\ Len(Placeholders) = TopN /\ ZeroCounts(Placeholders)
           /\ ~last.res.loadingPopularKeywords

C18_Witness ==
    /\ StatsFailed(last) /\ last.hst = "throw"
    /\ Len(last.table) = MaxWindow
    /\ last.res.topKeywords = <<>>

-----------------------------------------------------------------------------
(* Properties of getBackendApiUrl *)

\* C20: for every non-empty base URL the result ends with /api and has no
\* trailing slash, an /api suffix already present (with or without one
\* trailing slash) is not duplicated, and applying the function to its own
\* result returns the same URL; an empty base URL raises 'Backend URL is
\* required'.
C20_BackendApiUrl ==
    last.op = "url" =>
        IF last.input = <<>>
        THEN last.res.threw /\ last.res.message = "Backend URL is required"
        ELSE LET url == last.res.value
                 given == trim(last.input)
             IN /\ ~last.res.threw
                /\ endsWith(url, ApiSuffix)
                /\ ~endsWith(url, <<"/">>)
                /\ endsWith(given, ApiSuffix) => url = given
                /\ endsWith(given, ApiSuffix \o <<"/">>) =>
                       url = dropLast(given)
                /\ last.again = last.res

C20_Witness ==
    /\ last.op = "url"
    /\ last.input = <<"a", "/", "a", "p", "i", "/">>
    /\ last.res = Returned(<<"a", "/", "a", "p", "i">>)

C20_WitnessEmpty == last.op = "url" /\ last.input = <<>> /\ last.res.threw

-----------------------------------------------------------------------------
(* StatsService.subscribeToStatsUpdates(callback) *)

IntervalMs == 30000

\* Bounds: the clock advances MaxTicks times by TickMs, and MaxChanges rows
\* are added to search_history.
MaxTicks == 4
MaxChanges == 2
TickMs == IntervalMs \div 2

\* this.getPlatformStats().then(callback), up to the promise: one more
\* fetch is in flight.
startRefresh(s) ==
    [s EXCEPT !.started = @ + 1, !.pending = @ + 1]

\* The initial fetch, the realtime channel, the periodic refresh.
subscribeToStatsUpdates(s) ==
    [startRefresh(s) EXCEPT !.phase = "subscribed",
                            !.channel = TRUE,
                            !.interval = TRUE,
                            !.nextFire = clock + IntervalMs,
                            !.rowsAtSub = Len(searchHistory)]

\* Variant: the channel is removed and the interval left running.
unsubscribeChannelOnly(s) ==
    [s EXCEPT !.phase = "unsubscribed",
              !.channel = FALSE,
              !.atUnsub = [clock |-> clock, started |-> s.started,
                           rows |-> Len(searchHistory),
                           callbacks |-> s.callbacks]]

\* The returned function: removeChannel(channel); clearInterval(intervalId).
unsubscribe(s) ==
    [s EXCEPT !.phase = "unsubscribed",
              !.channel = FALSE,
              !.interval = FALSE,
              !.atUnsub = [clock |-> clock, started |-> s.started,
                           rows |-> Len(searchHistory),
                           callbacks |-> s.callbacks]]

\* The interval's callback; the timer stays armed for the next period.
intervalFires(s) ==
    [startRefresh(s) EXCEPT !.nextFire = @ + IntervalMs]

\* The postgres_changes handler.
onChange(s) == IF s.channel THEN startRefresh(s) ELSE s

\* .then(callback): the promise of a fetch in flight resolves with stats.
deliver(s, stats) ==
    [s EXCEPT !.pending = @ - 1, !.callbacks = @ + 1, !.shown = <<stats>>]

StatsInit ==
    /\ dbUser = [search_count |-> 0, last_reset_date |-> NullDate]
    /\ sessionTier = "" /\ lsTier = ""
    /\ lsCount = Absent /\ lsReset = NullDate
    /\ now = T0
    /\ steps = 0
    /\ last = [op |-> "none"]
    /\ hist = <<>>
    /\ sub = NotSubscribed
    /\ clock = 0
    /\ searchHistory \in {<<>>, <<AiTools>>}
    /\ RaceIdle
    /\ UiIdle

Subscribe ==
    /\ sub.phase = "idle"
    /\ sub' = subscribeToStatsUpdates(sub)
    /\ UNCHANGED <<clock, searchHistory, quotaVars, steps, last, hist,
                   raceVars, uiVars>>

Unsubscribe ==
    /\ sub.phase = "subscribed"
    /\ sub' = unsubscribe(sub)
    /\ UNCHANGED <<clock, searchHistory, quotaVars, steps, last, hist,
                   raceVars, uiVars>>

\* Time passes, unless the interval is due.
Advance ==
    /\ sub.phase # "idle"
    /\ clock < MaxTicks * TickMs
    /\ ~(sub.interval /\ clock >= sub.nextFire)
    /\ clock' = clock + TickMs
    /\ UNCHANGED <<sub, searchHistory, quotaVars, steps, last, hist,
                   raceVars, uiVars>>

IntervalFires ==
    /\ sub.interval
    /\ clock >= sub.nextFire
    /\ sub' = intervalFires(sub)
    /\ UNCHANGED <<clock, searchHistory, quotaVars, steps, last, hist,
                   raceVars, uiVars>>

\* A row is added to search_history; the channel, if joined, is notified.
RealtimeChange ==
    /\ sub.phase # "idle"
    /\ Len(searchHistory) < MaxChanges + 1
    /\ \E query \in {AiTools, <<"9">>} :
         searchHistory' = <<query>> \o searchHistory
    /\ sub' = onChange(sub)
    /\ UNCHANGED <<clock, quotaVars, steps, last, hist,
                   raceVars, uiVars>>

\* One of the fetches in flight completes and the callback receives its
\* result.
RefreshCompletes ==
    /\ sub.pending > 0
    /\ \E rpc \in Outcomes, hst \in {"ok", "throw"} :
         /\ rpc = "ok" => hst = "ok"
         /\ sub' = deliver(sub, getPlatformStats(searchHistory, <<>>, rpc,
                                                 "ok", hst))
    /\ UNCHANGED <<clock, searchHistory, quotaVars, steps, last, hist,
                   raceVars, uiVars>>

StatsNext ==
    \/ Subscribe
    \/ Unsubscribe
    \/ Advance
    \/ IntervalFires
    \/ RealtimeChange
    \/ RefreshCompletes

StatsSpec == StatsInit /\ [][StatsNext]_vars

-----------------------------------------------------------------------------
(* Properties of the live-statistics subscription *)

\* The periods of the interval that have run out since the subscription.
PeriodsElapsed == clock \div IntervalMs

\* The interval is due at this instant and its callback has yet to run.
IntervalDue == sub.interval /\ clock >= sub.nextFire

\* C19: from the subscription until the returned function is called, a
\* refresh is started every 30 seconds and on every realtime change, besides
\* the initial one; calling the function clears the interval and removes
\* the channel, and neither source starts a refresh afterwards.
C19_RefreshUntilUnsubscribed ==
    /\ sub.phase = "subscribed" =>
           /\ sub.channel /\ sub.interval
           /\ sub.nextFire = (PeriodsElapsed + (IF IntervalDue THEN 0 ELSE 1))
                                 * IntervalMs
           /\ sub.started = 1 + (PeriodsElapsed - (IF IntervalDue THEN 1 ELSE 0))
                               + (Len(searchHistory) - sub.rowsAtSub)
    /\ sub.phase = "unsubscribed" =>
           /\ ~sub.channel /\ ~sub.interval
           /\ sub.started = sub.atUnsub.started

\* Unsubscribed after an interval refresh and a realtime refresh; since
\* then a full period has passed and a row was added.
C19_Witness ==
    /\ sub.phase = "unsubscribed"
    /\ sub.atUnsub.started = 3
    /\ sub.atUnsub.clock = IntervalMs
    /\ clock >= sub.atUnsub.clock + IntervalMs
    /\ Len(searchHistory) > sub.atUnsub.rows
    /\ sub.started = 3

-----------------------------------------------------------------------------
(* Remote calls per operation *)

\* C22: no retries: one updateSearchCount issues at most one remote write,
\* one getSearchCount or checkSearchLimit at most one remote read; after a
\* single failed attempt the operation takes its fallback path or answers
\* with a default value.
C22_NoRetries ==
    /\ IsQuotaOp(last) => last.reads <= 1 /\ last.writes <= 1
    /\ (last.op = "check" /\ last.rd \in {"err", "throw"}) =>
           last.res = checkFailure /\ last.writes = 0 /\ dbUser = last.pre
    /\ (last.op = "usage" /\ last.rd \in {"err", "throw"}) =>
           /\ last.writes = 0 /\ dbUser = last.pre
           /\ last.res \in {Num(0), parseInt(orZero(last.preCache[1]))}
    /\ (IsRecord(last) /\ last.wr \in {"err", "throw"}) =>
           /\ dbUser = last.pre
           /\ last.wroteLocal \/ ~last.res.hasData

C22_Witness ==
    /\ IsRecord(last) /\ last.wr = "err"
    /\ last.reads = 1 /\ last.writes = 1
    /\ last.wroteLocal /\ dbUser = last.pre

\* C24: a successful updateSearchCount changes last_reset_date only when it
\* resets: without a reset it writes the date it read and the read count
\* plus the increment; with a reset it writes the current time and a count
\* equal to the increment.
C24_ResetDateOnlyOnReset ==
    (IsRecord(last) /\ last.rd = "ok" /\ last.wr = "ok") =>
        IF last.shouldReset
        THEN dbUser = [search_count |-> DefaultIncrement,
                       last_reset_date |-> toISOString(last.at)]
        ELSE dbUser = [search_count |->
                           last.pre.search_count + DefaultIncrement,
                       last_reset_date |-> last.pre.last_reset_date]

C24_Witness ==
    /\ IsRecord(last) /\ last.rd = "ok" /\ last.wr = "ok"
    /\ ~last.shouldReset
    /\ last.pre.last_reset_date = toISOString(T0 - ResetHours)
    /\ dbUser.last_reset_date = last.pre.last_reset_date
    /\ dbUser.search_count = FreeLimit

C24_WitnessReset ==
    /\ IsRecord(last) /\ last.rd = "ok" /\ last.wr = "ok"
    /\ last.shouldReset
    /\ dbUser = [search_count |-> 1, last_reset_date |-> toISOString(last.at)]
    /\ last.pre.last_reset_date.kind = "iso"

\* C30: once the function returned by subscribeToStatsUpdates has been
\* called, the subscriber's callback is not invoked again, not even for
\* fetches (initial, realtime or interval) started before the call and
\* completing after it.
C30_NoCallbackAfterUnsubscribe ==
    sub.phase = "unsubscribed" => sub.callbacks = sub.atUnsub.callbacks

-----------------------------------------------------------------------------
(* Two updateSearchCount calls for the same user, e.g. from two tabs.  Each  *)
(* call is two steps, split at its awaits: the select, and then the rest up  *)
(* to the update.                                                            *)

\* The hours the clock may advance while the two calls run.
MaxDrift == 2

RaceRows ==
    [search_count : {0, FreeLimit - 2},
     last_reset_date : {toISOString(T0), toISOString(T0 - ResetHours)}]

RaceInit ==
    /\ dbUser \in RaceRows
    /\ \E t \in InitTiers : lsTier = t[1] /\ sessionTier = t[2]
    /\ lsCount = Absent /\ lsReset = NullDate
    /\ now = T0
    /\ steps = 0
    /\ last = [op |-> "none", pre |-> dbUser]
    /\ hist = <<>>
    /\ StatsIdle
    /\ RaceIdle
    /\ UiIdle

\* Lines 199-212 of one call: the select and what it answered.
RaceRead(t) ==
    /\ tabs[t].pc = "idle"
    /\ \E rd \in Outcomes :
         tabs' = [tabs EXCEPT ![t] = [pc |-> "fetched", rd |-> rd,
                                      row |-> dbUser, readAt |-> steps]]
    /\ steps' = steps + 1
    /\ UNCHANGED <<quotaVars, last, hist, statsVars, uiVars>>

\* Lines 214-259 of one call: tier, reset decision, the update and the
\* fallback.
RaceWrite(t) ==
    /\ tabs[t].pc = "fetched"
    /\ \E sess \in {"ok", "throw"}, wr \in Outcomes :
         LET r == writeSearchCount(tabs[t].row, DefaultIncrement,
                                   tabs[t].rd, sess, wr)
         IN /\ issued(r.asked, sess)
            /\ dbUser' = r.db
            /\ lsCount' = r.lsCount
            /\ lsReset' = r.lsReset
            /\ lsTier' = r.lsTier
            /\ tabs' = [tabs EXCEPT ![t] =
                          [pc |-> "done", rd |-> tabs[t].rd,
                           row |-> tabs[t].row, readAt |-> tabs[t].readAt,
                           wroteAt |-> steps, wr |-> wr,
                           shouldReset |-> r.shouldReset,
                           payload |-> r.payload, res |-> r.res]]
    /\ steps' = steps + 1
    /\ UNCHANGED <<sessionTier, now, last, hist, statsVars, uiVars>>

RaceTick ==
    /\ now < T0 + MaxDrift
    /\ \E t \in {1, 2} : tabs[t].pc # "done"
    /\ now' = now + 1
    /\ UNCHANGED <<dbUser, sessionTier, lsCount, lsReset, lsTier, steps, last,
                   hist, statsVars, raceVars, uiVars>>

RaceFirstReads == RaceRead(1)
RaceSecondReads == RaceRead(2)
RaceFirstWrites == RaceWrite(1)
RaceSecondWrites == RaceWrite(2)

RaceNext ==
    \/ RaceFirstReads
    \/ RaceSecondReads
    \/ RaceFirstWrites
    \/ RaceSecondWrites
    \/ RaceTick

RaceSpec == RaceInit /\ [][RaceNext]_vars

\* Both calls are over, both selects answered before either update was
\* sent, and both updates succeeded.
BothReadFirst ==
    /\ \A t \in {1, 2} : tabs[t].pc = "done" /\ tabs[t].rd = "ok"
                         /\ tabs[t].wr = "ok"
    /\ \A t, u \in {1, 2} : tabs[t].readAt < tabs[u].wroteAt

LaterWriter == IF tabs[1].wroteAt > tabs[2].wroteAt THEN 1 ELSE 2

\* C21: when two recordSearch calls interleave so that both read before
\* either writes, neither write is refused and the row ends as the later
\* write left it: its count is the count both read plus one (or the bare
\* increment when the later call reset), never the read count plus two.
C21_LastWriteWins ==
    BothReadFirst =>
        LET w == tabs[LaterWriter]
            prior == last.pre.search_count
        IN /\ \A t \in {1, 2} : tabs[t].row = last.pre
           /\ \A t \in {1, 2} : ~tabs[t].res.error
           /\ dbUser = w.payload
           /\ dbUser.search_count =
                  IF w.shouldReset THEN DefaultIncrement
                  ELSE prior + DefaultIncrement
           /\ dbUser.search_count # prior + 2 * DefaultIncrement

C21_Witness ==
    /\ BothReadFirst
    /\ ~tabs[1].shouldReset /\ ~tabs[2].shouldReset
    /\ dbUser.search_count = FreeLimit - 1

-----------------------------------------------------------------------------
(* One session of a free or standard user with the remote store answering:  *)
(* every recordSearch comes after a checkLimit that reported the limit not   *)
(* reached.                                                                  *)

MaxSession == 5

GuardedInit ==
    /\ dbUser \in [search_count : {0, FreeLimit - 1, FreeLimit},
                   last_reset_date : {toISOString(T0),
                                      toISOString(T0 - ResetHours)}]
    /\ sessionTier \in {"free", "standard"}
    /\ lsTier \in {"", sessionTier}
    /\ lsCount = Absent /\ lsReset = NullDate
    /\ now = T0
    /\ steps = 0
    /\ last = [op |-> "none"]
    /\ hist = <<>>
    /\ StatsIdle
    /\ RaceIdle
    /\ UiIdle

\* checkSearchLimit(userId, tier) with the session's tier, answered.
GuardedCheck ==
    /\ steps < MaxSession
    /\ CheckStep
    /\ last'.tier = sessionTier
    /\ last'.rd = "ok" /\ last'.wr \in {"ok", "none"}
    /\ steps' = steps + 1
    /\ UNCHANGED <<hist, statsVars, raceVars, uiVars>>

\* updateSearchCount(userId), called only when the check just made allowed
\* the search.
GuardedRecord ==
    /\ steps < MaxSession
    /\ last.op = "check"
    /\ ~last.res.hasReachedLimit
    /\ RecordStep
    /\ last'.rd = "ok" /\ last'.sess \in {"ok", "none"} /\ last'.wr = "ok"
    /\ steps' = steps + 1
    /\ UNCHANGED <<hist, statsVars, raceVars, uiVars>>

\* Time passing between the calls of the session.
GuardedTick ==
    /\ steps < MaxSession
    /\ \E d \in {1, ResetHours} : now' = now + d
    /\ steps' = steps + 1
    /\ UNCHANGED <<dbUser, sessionTier, lsCount, lsReset, lsTier, last, hist,
                   statsVars, raceVars, uiVars>>

GuardedNext == GuardedCheck \/ GuardedRecord \/ GuardedTick

GuardedSpec == GuardedInit /\ [][GuardedNext]_vars

\* C23: in a session of a free or standard user whose every recordSearch
\* follows a checkLimit that reported reached = false, the stored count
\* never exceeds the tier's ceiling of 25.
C23_GuardedCountWithinCeiling ==
    dbUser.search_count <=
        (IF sessionTier = "free" THEN FreeLimit ELSE StandardLimit)

\* A guarded record has brought the count to the ceiling.
C23_Witness ==
    /\ last.op = "record"
    /\ last.pre.search_count = FreeLimit - 1
    /\ dbUser.search_count = FreeLimit

\* At the ceiling the check reports the limit reached, which stops the
\* session from recording.
C23_WitnessReached ==
    /\ last.op = "check"
    /\ last.res.hasReachedLimit
    /\ dbUser.search_count = FreeLimit
    /\ steps > 2

-----------------------------------------------------------------------------
(* ResearchDashboard.handlePlatformToggle *)

\* The platforms array of ResearchDashboard: every entry is available.
platforms ==
    <<[id |-> "reddit", available |-> TRUE],
      [id |-> "youtube", available |-> TRUE],
      [id |-> "tiktok", available |-> TRUE],
      [id |-> "instagram", available |-> TRUE],
      [id |-> "threads", available |-> TRUE],
      [id |-> "pinterest", available |-> TRUE],
      [id |-> "google", available |-> TRUE]>>

PlatformIds == {platforms[i].id : i \in 1..Len(platforms)}

\* Ids that name no entry of the array: the focused search's 'x' and
\* 'linkedin'.
UnlistedIds == {"x", "linkedin"}

\* platforms.find(p => p.id === platformId)?.available
isAvailable(platformId) ==
    \E i \in 1..Len(platforms) :
        platforms[i].id = platformId /\ platforms[i].available

\* prev.includes(platformId)
includes(prev, platformId) == \E i \in 1..Len(prev) : prev[i] = platformId

\* prev.filter(id => id !== platformId)
without(prev, platformId) ==
    LET F[i \in 0..Len(prev)] ==
            IF i = 0 THEN <<>>
            ELSE IF prev[i] = platformId THEN F[i - 1]
            ELSE Append(F[i - 1], prev[i])
    IN F[Len(prev)]

\* prev.includes(id) ? prev.filter(...) : [...prev, id]
toggled(prev, platformId) ==
    IF includes(prev, platformId) THEN without(prev, platformId)
    ELSE Append(prev, platformId)

\* Variant: the new selection is taken even when it is empty.
keepAny(prev, newSelection) == newSelection

\* if (newSelection.length === 0) return prev; return newSelection
keepNonEmpty(prev, newSelection) ==
    IF Len(newSelection) = 0 THEN prev ELSE newSelection

handlePlatformToggle(prev, platformId) ==
    IF ~isAvailable(platformId) THEN prev
    ELSE keepNonEmpty(prev, toggled(prev, platformId))

PlatformInit ==
    /\ dbUser = [search_count |-> 0, last_reset_date |-> NullDate]
    /\ sessionTier = "" /\ lsTier = ""
    /\ lsCount = Absent /\ lsReset = NullDate
    /\ now = T0
    /\ steps = 0
    /\ last = [op |-> "none"]
    /\ hist = <<>>
    /\ StatsIdle
    /\ RaceIdle
    /\ UiIdle

PlatformToggle(platformId) ==
    /\ selectedPlatforms' = handlePlatformToggle(selectedPlatforms, platformId)
    /\ last' = [op |-> "handlePlatformToggle", id |-> platformId,
                pre |-> selectedPlatforms]
    /\ UNCHANGED <<quotaVars, steps, hist, statsVars, raceVars, view, bar,
                   dash, adSearch, orphans>>

\* A click on a platform of the filter bar.
ToggleListed == \E platformId \in PlatformIds : PlatformToggle(platformId)

\* A call with an id the array does not hold.
ToggleUnlisted == \E platformId \in UnlistedIds : PlatformToggle(platformId)

PlatformNext == ToggleListed \/ ToggleUnlisted

PlatformSpec == PlatformInit /\ [][PlatformNext]_vars

\* C28: the selection is never empty; a toggle that would deselect the
\* last platform, and a toggle of an id that is unknown or unavailable,
\* leave the selection as it was.
C28_SelectionNeverEmpty ==
    /\ Len(selectedPlatforms) >= 1
    /\ \A i \in 1..Len(selectedPlatforms) :
           selectedPlatforms[i] \in PlatformIds
    /\ last.op = "handlePlatformToggle" =>
           /\ last.pre = <<last.id>> => selectedPlatforms = last.pre
           /\ ~isAvailable(last.id) => selectedPlatforms = last.pre
           /\ (isAvailable(last.id) /\ last.pre # <<last.id>>) =>
                  includes(selectedPlatforms, last.id)
                      = ~includes(last.pre, last.id)

\* The toggle of the only selected platform was refused.
C28_Witness ==
    /\ last.op = "handlePlatformToggle"
    /\ last.pre = <<last.id>>
    /\ selectedPlatforms = <<"google">>

C28_WitnessUnlisted ==
    /\ last.op = "handlePlatformToggle"
    /\ last.id = "x"
    /\ Len(selectedPlatforms) = 2

-----------------------------------------------------------------------------
(* The tier-gated MultiStepSearchToggle and the dashboard it mounts:        *)
(* ResearchDashboard with its EnhancedSearchBar ('standard'),               *)
(* AdSearchDashboard ('ads') and EnhancedResearchDashboard ('enhanced').    *)
(* A handler that awaits is two steps: up to the await, and the rest when   *)
(* the promise settles.  The query typed is taken to be non-empty.          *)

\* Subtopics a query-expansion response may carry.
MaxSubtopics == 2

\* Categories ticked at once in the search bar's category modal.
MaxCategories == 2

\* Requests one dashboard has in flight at a time.
MaxInFlight == 2

\* Requests in flight whose component was unmounted.
MaxOrphans == 1

\* The user prop: null, or the user's subscription_tier ("" = undefined).
Users == {"null", "", "free", "standard", "pro"}

ViewModes == {"standard", "ads", "enhanced"}

\* user?.subscription_tier || 'free'
userTier(user) == IF user \in {"null", ""} THEN "free" ELSE user

canAccessAdIntelligence(tier) == tier = "standard" \/ tier = "pro"

canAccessEnhancedAI(tier) == tier = "pro"

\* The disabled attribute of the three buttons.
buttonEnabled(mode, tier) ==
    \/ mode = "standard"
    \/ mode = "ads" /\ canAccessAdIntelligence(tier)
    \/ mode = "enhanced" /\ canAccessEnhancedAI(tier)

\* Variant: no effect resets the view.
viewAfterEffectKept(viewMode, tier) == viewMode

\* The effect on [viewMode, canAccessAdIntelligence, canAccessEnhancedAI].
viewAfterEffect(viewMode, tier) ==
    IF viewMode = "ads" /\ ~canAccessAdIntelligence(tier) THEN "standard"
    ELSE IF viewMode = "enhanced" /\ ~canAccessEnhancedAI(tier)
    THEN "standard"
    ELSE viewMode

\* A settled query expansion: rejected, or resolved with a success flag and
\* a number of subtopics.
ExpansionResponses ==
    {[thrown |-> TRUE, success |-> FALSE, subtopics |-> 0]}
    \cup [thrown : {FALSE}, success : BOOLEAN, subtopics : 0..MaxSubtopics]

\* expansionResponse.success && expansionResponse.data.subtopics.length > 0
usable(response) ==
    ~response.thrown /\ response.success /\ response.subtopics > 0

\* A settled focused search: resolved with success true, resolved with
\* success false, or rejected.
FocusedOutcomes == {"ok", "unsuccessful", "throw"}

\* Promise.all over the requests rejects when one of them does.
anyThrown(responses) ==
    \E i \in 1..Len(responses) : responses[i] = "throw"

anyUnsuccessful(responses) ==
    \E i \in 1..Len(responses) : responses[i] = "unsuccessful"

\* The subtopic made by handleCustomQuery.
CustomSubtopic == MaxSubtopics + 1

\* Variant: the flag is cleared only when the handler succeeded.
loadingAfterSuccess(failed) == failed

\* finally { setIsLoading(false) }
loadingAfter(failed) == FALSE

\* EnhancedSearchBar ------------------------------------------------------

\* onKeyPress and onClick: currentStep === 'search' && !isLoading
canStartSearch(currentStep, isLoading) ==
    currentStep = "search" /\ ~isLoading

performInitialSearch(b) ==
    [b EXCEPT !.isLoading = TRUE, !.error = FALSE, !.pending = "expansion"]

expansionSettled(b, response) ==
    IF usable(response)
    THEN [b EXCEPT !.subtopics = response.subtopics,
                   !.currentStep = "expansion",
                   !.isLoading = loadingAfter(FALSE), !.pending = "none"]
    ELSE [b EXCEPT !.error = TRUE, !.isLoading = loadingAfter(TRUE),
                   !.pending = "none"]

handleSubtopicSelection(b, subtopic) ==
    [b EXCEPT !.selectedSubtopic = subtopic, !.currentStep = "category"]

handleCustomQuery(b) ==
    [b EXCEPT !.selectedSubtopic = CustomSubtopic, !.currentStep = "category"]

goBack(b) ==
    IF b.currentStep = "expansion" THEN [b EXCEPT !.currentStep = "search"]
    ELSE IF b.currentStep = "category"
    THEN [b EXCEPT !.currentStep = "expansion"]
    ELSE b

resetSearch(b) ==
    [b EXCEPT !.currentStep = "search", !.subtopics = 0,
              !.selectedSubtopic = 0, !.error = FALSE]

handleCategorySelection(b, categories) ==
    IF b.selectedSubtopic = 0 \/ categories = 0 THEN b
    ELSE [b EXCEPT !.currentStep = "search", !.isLoading = TRUE,
                   !.error = FALSE, !.pending = "category",
                   !.categories = categories]

\* Variant: the callbacks run whatever the requests answered.
categoryCallsAlways(responses) == <<"onSearchComplete", "onSearchPerformed">>

\* The parent callbacks run once Promise.all has resolved, in this order.
categoryCalls(responses) ==
    IF anyThrown(responses) THEN <<>>
    ELSE <<"onSearchComplete", "onSearchPerformed">>

categorySettled(b, responses) ==
    IF anyThrown(responses)
    THEN [b EXCEPT !.error = TRUE, !.isLoading = loadingAfter(TRUE),
                   !.pending = "none", !.categories = 0]
    ELSE [resetSearch(b) EXCEPT !.isLoading = loadingAfter(FALSE),
                                !.pending = "none", !.categories = 0]

\* EnhancedResearchDashboard ----------------------------------------------

\* The disabled attribute of the input and of the button.
dashboardCanStartSearch(currentStep, isLoading) ==
    currentStep = "search" /\ ~isLoading

dashboardHandleInitialSearch(d) ==
    [d EXCEPT !.isLoading = TRUE, !.error = FALSE, !.expanding = @ + 1]

dashboardExpansionSettled(d, response) ==
    IF usable(response)
    THEN [d EXCEPT !.subtopics = response.subtopics,
                   !.currentStep = "expansion",
                   !.isLoading = loadingAfter(FALSE), !.expanding = @ - 1]
    ELSE [d EXCEPT !.error = TRUE, !.isLoading = loadingAfter(TRUE),
                   !.expanding = @ - 1]

dashboardHandleCategorySelection(d) ==
    IF d.selectedSubtopic = 0 THEN d
    ELSE [d EXCEPT !.isLoading = TRUE, !.error = FALSE, !.searching = @ + 1]

dashboardCalls(response) ==
    IF response = "ok" THEN <<"onSearchComplete">> ELSE <<>>

dashboardSearchSettled(d, response) ==
    IF response = "ok"
    THEN [d EXCEPT !.searchResults = TRUE, !.currentStep = "results",
                   !.isLoading = loadingAfter(FALSE), !.searching = @ - 1]
    ELSE [d EXCEPT !.error = TRUE, !.isLoading = loadingAfter(TRUE),
                   !.searching = @ - 1]

dashboardResetSearch(d) ==
    [d EXCEPT !.currentStep = "search", !.subtopics = 0,
              !.selectedSubtopic = 0, !.searchResults = FALSE,
              !.error = FALSE]

\* AdSearchDashboard ------------------------------------------------------

handleSearch(a) ==
    IF Len(a.selectedPlatforms) = 0 THEN a
    ELSE [a EXCEPT !.isLoading = TRUE, !.error = FALSE, !.ads = FALSE,
                   !.searching = @ + 1]

adSearchSettled(a, response) ==
    IF response = "ok"
    THEN [a EXCEPT !.ads = TRUE, !.isLoading = loadingAfter(FALSE),
                   !.searching = @ - 1]
    ELSE [a EXCEPT !.error = TRUE, !.isLoading = loadingAfter(TRUE),
                   !.searching = @ - 1]

togglePlatform(prev, platformId) == toggled(prev, platformId)

\* The ad platforms toggled in the model: those selected at first.
AdPlatformInputs == {"facebook", "google", "linkedin"}

\* What the last handler did: the step (or view) before and after, the
\* loading flag it found, the parent callbacks it ran, in order, and what
\* the settled requests answered.
UiEvent(op, from, to, wasLoading, calls, failed, unsuccessful, wasUsable) ==
    [op |-> op, from |-> from, to |-> to, wasLoading |-> wasLoading,
     calls |-> calls, failed |-> failed, unsuccessful |-> unsuccessful,
     usable |-> wasUsable]

Handled(op, old, new) ==
    UiEvent(op, old.currentStep, new.currentStep, old.isLoading, <<>>,
            FALSE, FALSE, FALSE)

UiInit ==
    /\ dbUser = [search_count |-> 0, last_reset_date |-> NullDate]
    /\ sessionTier = "" /\ lsTier = ""
    /\ lsCount = Absent /\ lsReset = NullDate
    /\ now = T0
    /\ steps = 0
    /\ last = [op |-> "none"]
    /\ hist = <<>>
    /\ StatsIdle
    /\ RaceIdle
    /\ UiIdle

\* The requests of the dashboard being unmounted whose settling still runs
\* parent callbacks.
orphaned(mode) ==
    IF mode = "standard" /\ bar.pending = "category"
    THEN [orphans EXCEPT !.bar = Append(@, bar.categories)]
    ELSE IF mode = "enhanced"
    THEN [orphans EXCEPT !.dash = @ + dash.searching]
    ELSE orphans

\* renderDashboard returns another component: the one shown is unmounted
\* and the new one starts from its initial state.
Remount(from, to) ==
    IF from = to
    THEN UNCHANGED <<bar, dash, adSearch, orphans>>
    ELSE /\ bar' = SearchBarMounted
         /\ dash' = DashboardMounted
         /\ adSearch' = AdSearchMounted
         /\ orphans' = orphaned(from)
         /\ Len(orphans'.bar) <= MaxOrphans
         /\ orphans'.dash <= MaxOrphans

UiFrame == UNCHANGED <<quotaVars, steps, hist, statsVars, raceVars,
                       selectedPlatforms>>

\* A click on one of the three view buttons.
SetViewMode ==
    /\ \E mode \in ViewModes :
         /\ mode # view.viewMode
         /\ buttonEnabled(mode, userTier(view.user))
         /\ view' = [view EXCEPT !.viewMode =
                                     viewAfterEffect(mode, userTier(view.user))]
         /\ Remount(view.viewMode, view'.viewMode)
         /\ last' = UiEvent("setViewMode", view.viewMode, view'.viewMode,
                            FALSE, <<>>, FALSE, FALSE, FALSE)
    /\ UiFrame

\* The parent passes another user: sign-in, sign-out, a tier change.
UserChanges ==
    /\ \E user \in Users :
         /\ user # view.user
         /\ view' = [viewMode |-> viewAfterEffect(view.viewMode,
                                                  userTier(user)),
                     user |-> user]
         /\ Remount(view.viewMode, view'.viewMode)
         /\ last' = UiEvent("userChanges", view.viewMode, view'.viewMode,
                            FALSE, <<>>, FALSE, FALSE, FALSE)
    /\ UiFrame

\* EnhancedSearchBar ------------------------------------------------------

BarShown == view.viewMode = "standard"

BarInitialSearch ==
    /\ BarShown
    /\ canStartSearch(bar.currentStep, bar.isLoading)
    /\ bar' = performInitialSearch(bar)
    /\ last' = Handled("performInitialSearch", bar, bar')
    /\ UNCHANGED <<view, dash, adSearch, orphans>>
    /\ UiFrame

BarExpansionSettled ==
    /\ BarShown
    /\ bar.pending = "expansion"
    /\ \E response \in ExpansionResponses :
         /\ bar' = expansionSettled(bar, response)
         /\ last' = UiEvent("expansionSettled", bar.currentStep,
                            bar'.currentStep, bar.isLoading, <<>>,
                            ~usable(response), FALSE, usable(response))
    /\ UNCHANGED <<view, dash, adSearch, orphans>>
    /\ UiFrame

BarSelectSubtopic ==
    /\ BarShown
    /\ bar.currentStep = "expansion"
    /\ \E subtopic \in 1..bar.subtopics :
         bar' = handleSubtopicSelection(bar, subtopic)
    /\ last' = Handled("handleSubtopicSelection", bar, bar')
    /\ UNCHANGED <<view, dash, adSearch, orphans>>
    /\ UiFrame

BarCustomQuery ==
    /\ BarShown
    /\ bar.currentStep = "expansion"
    /\ bar' = handleCustomQuery(bar)
    /\ last' = Handled("handleCustomQuery", bar, bar')
    /\ UNCHANGED <<view, dash, adSearch, orphans>>
    /\ UiFrame

\* The Back button, shown off the 'search' step, and the modals' onClose.
BarGoBack ==
    /\ BarShown
    /\ bar.currentStep # "search"
    /\ bar' = goBack(bar)
    /\ last' = Handled("goBack", bar, bar')
    /\ UNCHANGED <<view, dash, adSearch, orphans>>
    /\ UiFrame

BarSelectCategories ==
    /\ BarShown
    /\ bar.currentStep = "category"
    /\ \E categories \in 0..MaxCategories :
         bar' = handleCategorySelection(bar, categories)
    /\ last' = Handled("handleCategorySelection", bar, bar')
    /\ UNCHANGED <<view, dash, adSearch, orphans>>
    /\ UiFrame

BarCategorySettled ==
    /\ BarShown
    /\ bar.pending = "category"
    /\ \E responses \in [1..bar.categories -> FocusedOutcomes] :
         /\ bar' = categorySettled(bar, responses)
         /\ last' = UiEvent("categorySettled", bar.currentStep,
                            bar'.currentStep, bar.isLoading,
                            categoryCalls(responses), anyThrown(responses),
                            anyUnsuccessful(responses), FALSE)
    /\ UNCHANGED <<view, dash, adSearch, orphans>>
    /\ UiFrame

\* The category search of an unmounted search bar settles: its state
\* setters do nothing, its parent callbacks still run.
BarOrphanSettled ==
    /\ orphans.bar # <<>>
    /\ \E responses \in [1..Head(orphans.bar) -> FocusedOutcomes] :
         last' = UiEvent("unmountedCategorySettled", "search", "search",
                         TRUE,
                         categoryCalls(responses), anyThrown(responses),
                         anyUnsuccessful(responses), FALSE)
    /\ orphans' = [orphans EXCEPT !.bar = Tail(@)]
    /\ UNCHANGED <<view, bar, dash, adSearch>>
    /\ UiFrame

\* EnhancedResearchDashboard ----------------------------------------------

DashShown == view.viewMode = "enhanced"

DashInFlight == dash.expanding + dash.searching

DashInitialSearch ==
    /\ DashShown
    /\ DashInFlight < MaxInFlight
    /\ dashboardCanStartSearch(dash.currentStep, dash.isLoading)
    /\ dash' = dashboardHandleInitialSearch(dash)
    /\ last' = Handled("dashboardHandleInitialSearch", dash, dash')
    /\ UNCHANGED <<view, bar, adSearch, orphans>>
    /\ UiFrame

DashExpansionSettled ==
    /\ DashShown
    /\ dash.expanding > 0
    /\ \E response \in ExpansionResponses :
         /\ dash' = dashboardExpansionSettled(dash, response)
         /\ last' = UiEvent("dashboardExpansionSettled", dash.currentStep,
                            dash'.currentStep, dash.isLoading, <<>>,
                            ~usable(response), FALSE, usable(response))
    /\ UNCHANGED <<view, bar, adSearch, orphans>>
    /\ UiFrame

DashSelectSubtopic ==
    /\ DashShown
    /\ dash.currentStep = "expansion"
    /\ \E subtopic \in 1..dash.subtopics :
         dash' = handleSubtopicSelection(dash, subtopic)
    /\ last' = Handled("dashboardHandleSubtopicSelection", dash, dash')
    /\ UNCHANGED <<view, bar, adSearch, orphans>>
    /\ UiFrame

DashCustomQuery ==
    /\ DashShown
    /\ dash.currentStep = "expansion"
    /\ dash' = handleCustomQuery(dash)
    /\ last' = Handled("dashboardHandleCustomQuery", dash, dash')
    /\ UNCHANGED <<view, bar, adSearch, orphans>>
    /\ UiFrame

\* onClose of the open modal.
DashCloseModal ==
    /\ DashShown
    /\ dash.currentStep \in {"expansion", "category"}
    /\ dash' = goBack(dash)
    /\ last' = Handled("onClose", dash, dash')
    /\ UNCHANGED <<view, bar, adSearch, orphans>>
    /\ UiFrame

\* onSelectCategory of the category modal, which is open for as long as
\* the step is 'category', a search in flight or not.
DashSelectCategory ==
    /\ DashShown
    /\ dash.currentStep = "category"
    /\ DashInFlight < MaxInFlight
    /\ dash' = dashboardHandleCategorySelection(dash)
    /\ last' = Handled("dashboardHandleCategorySelection", dash, dash')
    /\ UNCHANGED <<view, bar, adSearch, orphans>>
    /\ UiFrame

DashSearchSettled ==
    /\ DashShown
    /\ dash.searching > 0
    /\ \E response \in FocusedOutcomes :
         /\ dash' = dashboardSearchSettled(dash, response)
         /\ last' = UiEvent("dashboardSearchSettled", dash.currentStep,
                            dash'.currentStep, dash.isLoading,
                            dashboardCalls(response), response # "ok",
                            response = "unsuccessful", FALSE)
    /\ UNCHANGED <<view, bar, adSearch, orphans>>
    /\ UiFrame

ResultsShown == dash.currentStep = "results" /\ dash.searchResults

\* 'Back to Category Selection' and ResultsPage's onBack.
DashBackToCategory ==
    /\ DashShown
    /\ ResultsShown
    /\ dash' = [dash EXCEPT !.currentStep = "category"]
    /\ last' = Handled("onBack", dash, dash')
    /\ UNCHANGED <<view, bar, adSearch, orphans>>
    /\ UiFrame

\* 'New Search'.
DashNewSearch ==
    /\ DashShown
    /\ ResultsShown
    /\ dash' = dashboardResetSearch(dash)
    /\ last' = Handled("dashboardResetSearch", dash, dash')
    /\ UNCHANGED <<view, bar, adSearch, orphans>>
    /\ UiFrame

DashOrphanSettled ==
    /\ orphans.dash > 0
    /\ \E response \in FocusedOutcomes :
         last' = UiEvent("unmountedSearchSettled", "search", "search",
                         TRUE,
                         dashboardCalls(response), response # "ok",
                         response = "unsuccessful", FALSE)
    /\ orphans' = [orphans EXCEPT !.dash = @ - 1]
    /\ UNCHANGED <<view, bar, dash, adSearch>>
    /\ UiFrame

\* AdSearchDashboard ------------------------------------------------------

AdsShown == view.viewMode = "ads"

\* Enter in the query input (not disabled while loading) or the button.
AdSearch ==
    /\ AdsShown
    /\ adSearch.searching < MaxInFlight
    /\ adSearch' = handleSearch(adSearch)
    /\ last' = UiEvent("handleSearch", "ads", "ads", adSearch.isLoading, <<>>,
                       FALSE, FALSE, FALSE)
    /\ UNCHANGED <<view, bar, dash, orphans>>
    /\ UiFrame

AdSearchSettled ==
    /\ AdsShown
    /\ adSearch.searching > 0
    /\ \E response \in {"ok", "throw"} :
         /\ adSearch' = adSearchSettled(adSearch, response)
         /\ last' = UiEvent("adSearchSettled", "ads", "ads",
                            adSearch.isLoading, <<>>, response # "ok", FALSE,
                            FALSE)
    /\ UNCHANGED <<view, bar, dash, orphans>>
    /\ UiFrame

AdTogglePlatform ==
    /\ AdsShown
    /\ \E platformId \in AdPlatformInputs :
         adSearch' = [adSearch EXCEPT !.selectedPlatforms =
                                          togglePlatform(@, platformId)]
    /\ last' = UiEvent("togglePlatform", "ads", "ads", adSearch.isLoading,
                       <<>>, FALSE, FALSE, FALSE)
    /\ UNCHANGED <<view, bar, dash, orphans>>
    /\ UiFrame

UiNext ==
    \/ SetViewMode
    \/ UserChanges
    \/ BarInitialSearch
    \/ BarExpansionSettled
    \/ BarSelectSubtopic
    \/ BarCustomQuery
    \/ BarGoBack
    \/ BarSelectCategories
    \/ BarCategorySettled
    \/ BarOrphanSettled
    \/ DashInitialSearch
    \/ DashExpansionSettled
    \/ DashSelectSubtopic
    \/ DashCustomQuery
    \/ DashCloseModal
    \/ DashSelectCategory
    \/ DashSearchSettled
    \/ DashBackToCategory
    \/ DashNewSearch
    \/ DashOrphanSettled
    \/ AdSearch
    \/ AdSearchSettled
    \/ AdTogglePlatform

UiSpec == UiInit /\ [][UiNext]_vars

-----------------------------------------------------------------------------
(* Claims about the search flow and the view toggle *)

UiOps ==
    {"setViewMode", "userChanges", "performInitialSearch",
     "expansionSettled", "handleSubtopicSelection", "handleCustomQuery",
     "goBack", "handleCategorySelection", "categorySettled",
     "unmountedCategorySettled", "unmountedSearchSettled",
     "dashboardHandleInitialSearch", "dashboardExpansionSettled",
     "dashboardHandleSubtopicSelection", "dashboardHandleCustomQuery",
     "onClose", "dashboardHandleCategorySelection", "dashboardSearchSettled",
     "onBack", "dashboardResetSearch", "handleSearch", "adSearchSettled",
     "togglePlatform"}

\* The modal of a step has what it shows.
StepHasItsData(c) ==
    /\ c.currentStep = "category" => c.selectedSubtopic # 0
    /\ c.currentStep = "expansion" => c.subtopics > 0

\* C25: in the search bar and in the dashboard, step 'category' implies a
\* selected subtopic and step 'expansion' a non-empty subtopic list, and
\* 'expansion' is entered from 'search' only by a query-expansion response
\* with success and at least one subtopic.
C25_StepsHaveTheirData ==
    /\ StepHasItsData(bar)
    /\ StepHasItsData(dash)
    /\ (last.op \in UiOps /\ last.from = "search" /\ last.to = "expansion")
           => last.usable

\* The search bar alone keeps the steps and their data together.
C25_SearchBarStepsHaveTheirData ==
    /\ StepHasItsData(bar)
    /\ (last.op \in {"performInitialSearch", "expansionSettled",
                     "handleSubtopicSelection", "handleCustomQuery", "goBack",
                     "handleCategorySelection", "categorySettled"}
        /\ last.from = "search" /\ last.to = "expansion") => last.usable

\* C26: when performInitialSearch or handleCategorySelection (search bar,
\* dashboard) or handleSearch (ad search) has run to its end, succeeded or
\* not, isLoading is false; and the search bar starts no initial search
\* while isLoading is true.
C26_LoadingCleared ==
    /\ last.op \in {"expansionSettled", "categorySettled"} => ~bar.isLoading
    /\ last.op \in {"dashboardExpansionSettled", "dashboardSearchSettled"}
           => ~dash.isLoading
    /\ last.op = "adSearchSettled" => ~adSearch.isLoading
    /\ last.op = "performInitialSearch" => ~last.wasLoading /\ bar.isLoading

\* A category search of the search bar has failed and the flag is down.
C26_Witness ==
    /\ last.op = "categorySettled"
    /\ last.failed
    /\ last.wasLoading
    /\ ~bar.isLoading

C26_WitnessDashboard ==
    /\ last.op = "dashboardSearchSettled"
    /\ last.failed
    /\ last.wasLoading
    /\ ~dash.isLoading

C26_WitnessAdSearch ==
    /\ last.op = "adSearchSettled"
    /\ last.failed
    /\ last.wasLoading
    /\ ~adSearch.isLoading

IsCategorySettled(l) ==
    l.op \in {"categorySettled", "unmountedCategorySettled"}

Performed(l) == includes(l.calls, "onSearchPerformed")

\* C27, as stated: onSearchPerformed runs exactly once, after
\* onSearchComplete, for a category search all of whose focused-search
\* requests succeed, and never when the query expansion or any
\* focused-search request fails, a response with success false being a
\* failed request.
C27_PerformedOnlyWhenAllSucceed ==
    last.op \in UiOps =>
        IF IsCategorySettled(last) /\ ~last.failed /\ ~last.unsuccessful
        THEN last.calls = <<"onSearchComplete", "onSearchPerformed">>
        ELSE ~Performed(last)

\* C27, amended: onSearchPerformed runs exactly once, after
\* onSearchComplete, for a category search none of whose focused-search
\* requests rejects, a response with success false included, and never when
\* the query expansion fails or a focused-search request rejects.
C27_PerformedUnlessRejected ==
    last.op \in UiOps =>
        IF IsCategorySettled(last) /\ ~last.failed
        THEN last.calls = <<"onSearchComplete", "onSearchPerformed">>
        ELSE ~Performed(last)

\* A category search with a response of success false was counted.
C27_Witness ==
    /\ last.op = "categorySettled"
    /\ last.unsuccessful /\ ~last.failed
    /\ Performed(last)

C27_WitnessRejected ==
    /\ last.op = "categorySettled"
    /\ last.failed
    /\ last.calls = <<>>

C29_WitnessSignedOut ==
    /\ last.op = "userChanges"
    /\ last.from = "ads"
    /\ view = [viewMode |-> "standard", user |-> "null"]

====
